---- MODULE Spec2Model ----
(***************************************************************************)
(* Model of the DFM financial-statement parser (parsers/pdf_financials.py  *)
(* and parsers/common.py): number parsing of the numeric tokens of a line, *)
(* note-reference filtering, period-value selection, the line and table    *)
(* candidate extractors, the candidate resolver, the note-block extractors *)
(* (Note 20 and Note 8), the six passes of parse_pdf_financials and the    *)
(* portfolio helpers.                                                      *)
(*                                                                         *)
(* Text is modelled by what the code reads from it:                        *)
(*   - a numeric token (a match of _NUM_RE) is a record [form, mag]: its   *)
(*     digits' magnitude and the way sign characters surround them;        *)
(*   - a text line is [label, toks]: the metric whose keyword the          *)
(*     normalised line starts with ("none" when no keyword does) and the   *)
(*     numeric tokens after the keyword;                                   *)
(*   - a line read by the note extractors is [start, words, text, toks]    *)
(*     (section 6);                                                        *)
(*   - a page is [head, years, lines, tables, wording, notes]: the         *)
(*     sections whose heading phrase occurs in the first 1500 characters,  *)
(*     the year tokens of each of its leading lines, its labelled lines,   *)
(*     its tables, the period phrases of its text and the lines of its     *)
(*     text that follow the labelled ones.                                 *)
(* The display strings (items) of the result are not modelled.             *)
(***************************************************************************)
EXTENDS Integers, Sequences, FiniteSets, TLC

VARIABLES
    pc,             \* position in the routine being run
    candidates,     \* List[Candidate] collected so far
    best,           \* Dict[str, Candidate] of _best_candidates, in insertion order
    section,        \* section argument of the extractor being run
    header,         \* year tokens of the leading lines of the page of the line
    col_count,      \* _detect_column_count of that page
    line,           \* the matched line
    values,         \* values of _extract_line_numbers
    value,          \* value of _pick_current_year_value
    pages,          \* pdf.pages / page_texts read by pass 1
    page_sections,  \* page_sections of parse_pdf_financials
    page_idx,       \* page_idx of pass 2
    metrics,        \* metrics of parse_pdf_financials
    audit,          \* audit of parse_pdf_financials
    note20,         \* note20 of parse_pdf_financials
    note8,          \* note8 of parse_pdf_financials
    warnings,       \* warnings of parse_pdf_financials
    total_portfolio, \* result of compute_portfolio_from_metrics
    ear_portfolio,  \* result of compute_ear_portfolio
    raw,            \* argument of parse_number
    number,         \* return value of parse_number
    page_table,     \* table argument of _extract_table_candidates
    page_text,      \* text argument of _classify_page
    page_tag,       \* return value of _classify_page
    note_text,      \* full_text argument of the note extractors
    note_lines      \* merged of _extract_note20_breakdown

resolveVars == <<candidates, best>>
lineVars == <<section, header, col_count, line, values, value>>
parseVars == <<pages, page_sections, page_idx, metrics, audit>>
noteVars == <<note20, note8, warnings>>
portfolioVars == <<total_portfolio, ear_portfolio>>
numberVars == <<raw, number>>
tableVars == <<page_table>>
classifyVars == <<page_text, page_tag>>
blockVars == <<note_text, note_lines>>
vars == <<pc, resolveVars, lineVars, parseVars, noteVars, portfolioVars, numberVars,
          tableVars, classifyVars, blockVars>>

-----------------------------------------------------------------------------
(* Bounds of the model *)

MaxCands == 3
MaxTokens == 4
MaxPages == 2

-----------------------------------------------------------------------------
(* 1) Label dictionaries *)

\* The keys of each dictionary in the order the dictionary lists them.
INCOME_ORDER ==
    <<"trading_commission", "investment_income", "dividend_income", "finance_income">>

BALANCE_ORDER ==
    <<"investment_deposits", "investments_amortised_cost", "fvtoci", "cash_and_equivalents">>

Range(s) == {s[i] : i \in 1..Len(s)}

INCOME_LABELS == Range(INCOME_ORDER)

BALANCE_LABELS == Range(BALANCE_ORDER)

\* Optional[float]: None is the empty sequence, a number v is <<v>>.
None == << >>

Some(v) == <<v>>

\* Optional[str] of _classify_page: no section.
NoSection == "none"

Abs(x) == IF x < 0 THEN -x ELSE x

-----------------------------------------------------------------------------
(* 3) Column layout detection *)

HeaderScanLines == 15

\* _detect_column_count from line i on; ylines[i] holds the year tokens
\* (_YEAR_RE) of line i of the page text.
RECURSIVE DetectFrom(_, _)
DetectFrom(ylines, i) ==
    IF i > Len(ylines) \/ i > HeaderScanLines THEN 0
    ELSE IF Len(ylines[i]) >= 4 THEN 4
    ELSE IF Len(ylines[i]) = 2 THEN 2
    ELSE DetectFrom(ylines, i + 1)

DetectColumnCount(ylines) == DetectFrom(ylines, 1)

-----------------------------------------------------------------------------
(* parse_number of parsers/common.py on any value *)

(***************************************************************************)
(* The argument is [kind, num, chars]: kind "none" for None, "num" for an  *)
(* int or float (num), "text" for a string, chars being its characters.    *)
(* The return value is None, Some([neg, whole, frac]) for the float whose  *)
(* decimal writing has the sign neg, the integer part whole and the        *)
(* fraction digits frac, or ValueError when float() is handed a text it    *)
(* does not read.  A character is a string; "endash" and "emdash" are the  *)
(* dashes U+2013 and U+2014, "acirc", "euro" and "ldquo" the characters of *)
(* a mis-decoded dash.                                                     *)
(***************************************************************************)
NoValue == [kind |-> "none", num |-> 0, chars |-> << >>]

NumValue(n) == [kind |-> "num", num |-> n, chars |-> << >>]

TextValue(chars) == [kind |-> "text", num |-> 0, chars |-> chars]

ValueError == <<[error |-> "ValueError"]>>

Float(neg, whole, frac) == Some([neg |-> neg, whole |-> whole, frac |-> frac])

EMPTY_TOKENS ==
    { << >>, <<"-">>, <<"endash">>, <<"emdash">>, <<"n", "a">>, <<"n", "/", "a">> }

Digits == {"0", "1", "2", "3", "4", "5", "6", "7", "8", "9"}

DigitValue(c) ==
    CASE c = "0" -> 0 [] c = "1" -> 1 [] c = "2" -> 2 [] c = "3" -> 3 [] c = "4" -> 4
      [] c = "5" -> 5 [] c = "6" -> 6 [] c = "7" -> 7 [] c = "8" -> 8 [] c = "9" -> 9

\* str.strip(): the blanks at both ends are dropped
RECURSIVE StripLeft(_)
StripLeft(s) == IF s # << >> /\ Head(s) = " " THEN StripLeft(Tail(s)) ELSE s

RECURSIVE StripRight(_)
StripRight(s) ==
    IF s # << >> /\ s[Len(s)] = " " THEN StripRight(SubSeq(s, 1, Len(s) - 1)) ELSE s

Strip(s) == StripRight(StripLeft(s))

\* str.lower() on the letters of the tokens
LowerChar(c) == CASE c = "N" -> "n" [] c = "A" -> "a" [] OTHER -> c

Lower(s) == [i \in 1..Len(s) |-> LowerChar(s[i])]

KeepSeparators(s) == s

\* text.replace(",", "").replace(" ", "")
RemoveSeparators(s) == SelectSeq(s, LAMBDA c : c \notin {",", " "})

\* re.fullmatch(r"[()\-\u2013\u2014\s]*", text)
OnlyBracketsAndDashes(s) ==
    \A i \in 1..Len(s) : s[i] \in {"(", ")", "-", "endash", "emdash", " "}

\* text.startswith("(") and text.endswith(")")
Parenthesised(s) == s # << >> /\ Head(s) = "(" /\ s[Len(s)] = ")"

\* text.replace("\u2013", "-").replace("\u2014", "-")
AsciiDash(s) == [i \in 1..Len(s) |-> IF s[i] \in {"endash", "emdash"} THEN "-" ELSE s[i]]

\* Where the leftmost match of -?\d+(?:\.\d+)? starts in s from position i
\* on, 0 when there is none.
RECURSIVE MatchStart(_, _)
MatchStart(s, i) ==
    IF i > Len(s) THEN 0
    ELSE IF s[i] \in Digits THEN i
    ELSE IF s[i] = "-" /\ i < Len(s) /\ s[i + 1] \in Digits THEN i
    ELSE MatchStart(s, i + 1)

\* The last position of the run of digits that starts at position i.
RECURSIVE DigitsEnd(_, _)
DigitsEnd(s, i) ==
    IF i < Len(s) /\ s[i + 1] \in Digits THEN DigitsEnd(s, i + 1) ELSE i

MatchWholeText(s) == s

\* match.group(0) of re.search(r"-?\d+(?:\.\d+)?", text), << >> for no match
MatchNumber(s) ==
    LET b == MatchStart(s, 1) IN
    IF b = 0 THEN << >>
    ELSE LET d == IF s[b] = "-" THEN b + 1 ELSE b
             e == DigitsEnd(s, d)
             f == IF e + 1 < Len(s) /\ s[e + 1] = "." /\ s[e + 2] \in Digits
                  THEN DigitsEnd(s, e + 2) ELSE e
         IN SubSeq(s, b, f)

RECURSIVE WholeOf(_)
WholeOf(ds) ==
    IF ds = << >> THEN 0
    ELSE 10 * WholeOf(SubSeq(ds, 1, Len(ds) - 1)) + DigitValue(ds[Len(ds)])

\* float(text) on a text of signs, digits and a dot: [-]digits[.digits] is
\* read, anything else raises.
FloatOf(s) ==
    LET neg == s # << >> /\ Head(s) = "-"
        body == IF neg THEN Tail(s) ELSE s
        e == IF body # << >> /\ body[1] \in Digits THEN DigitsEnd(body, 1) ELSE 0
        whole == SubSeq(body, 1, e)
        rest == SubSeq(body, e + 1, Len(body))
    IN IF e = 0 THEN ValueError
       ELSE IF rest = << >> THEN Float(neg, WholeOf(whole), << >>)
       ELSE IF /\ Head(rest) = "."
               /\ Len(rest) >= 2
               /\ \A i \in 2..Len(rest) : rest[i] \in Digits
            THEN Float(neg, WholeOf(whole), [i \in 1..(Len(rest) - 1) |-> DigitValue(rest[i + 1])])
       ELSE ValueError

\* number = -abs(number)
NegAbs(x) == IF x = ValueError THEN x ELSE Float(TRUE, x[1].whole, x[1].frac)

\* parse_number on a string
ParseText(chars) ==
    LET text == Strip(chars) IN
    IF text = << >> THEN None
    ELSE IF Lower(text) \in EMPTY_TOKENS THEN None
    ELSE LET bare == RemoveSeparators(text) IN
         IF OnlyBracketsAndDashes(bare) THEN None
         ELSE LET neg == Parenthesised(bare)
                  inner == AsciiDash(IF neg THEN SubSeq(bare, 2, Len(bare) - 1) ELSE bare)
                  match == MatchNumber(inner)
              IN IF match = << >> THEN None
                 ELSE IF neg THEN NegAbs(FloatOf(match)) ELSE FloatOf(match)

\* parse_number
ParseNumberValue(v) ==
    CASE v.kind = "none" -> None
      [] v.kind = "num" -> Float(v.num < 0, Abs(v.num), << >>)
      [] OTHER -> ParseText(v.chars)

-----------------------------------------------------------------------------
(* 4) Number extraction from a text line *)

\* The shapes a match of _NUM_RE = -?\(?\d[\d,]*\)? takes:
\*   plain "1,234"   paren "(1,234)"   minus "-1,234"   minusparen "-(1,234)"
TokForms == {"plain", "paren", "minus", "minusparen"}

\* parse_number on such a match.  Commas are dropped; only a text that starts
\* with "(" and ends with ")" is negated; otherwise the first -?\d+ is read,
\* which in "-(1234)" is "1234".
ParseNumber(tok) ==
    CASE tok.form = "paren" -> 0 - tok.mag
      [] tok.form = "minus" -> 0 - tok.mag
      [] OTHER -> tok.mag

NoteRefLimit == 100

\* values after the loop over raw_matches (every match holds a digit, so
\* parse_number never returns None on it).
ParsedValues(toks) == [i \in 1..Len(toks) |-> ParseNumber(toks[i])]

ExtractNoFilter(toks) == ParsedValues(toks)

\* _extract_line_numbers on the tokens that follow the label.
ExtractLineNumbers(toks) ==
    LET vals == ParsedValues(toks) IN
    IF /\ Len(vals) >= 2
       /\ Abs(vals[1]) < NoteRefLimit
       /\ \E i \in 2..Len(vals) : Abs(vals[i]) >= NoteRefLimit
    THEN Tail(vals)
    ELSE vals

PickFirst(vals, cols, sec) ==
    IF vals = << >> THEN None ELSE Some(vals[1])

PickIgnoringSection(vals, cols, sec) ==
    IF vals = << >> THEN None
    ELSE IF cols = 4
         THEN (IF Len(vals) >= 3 THEN Some(vals[3]) ELSE Some(vals[1]))
         ELSE Some(vals[1])

PickPriorOnTwoColumns(vals, cols, sec) ==
    IF vals = << >> THEN None
    ELSE IF cols = 4 /\ sec = "pl"
         THEN (IF Len(vals) >= 3 THEN Some(vals[3]) ELSE Some(vals[1]))
         ELSE IF cols = 2 /\ Len(vals) >= 2 THEN Some(vals[2])
         ELSE Some(vals[1])

\* _pick_current_year_value
PickCurrentYearValue(vals, cols, sec) ==
    IF vals = << >> THEN None
    ELSE IF cols = 4 /\ sec = "pl"
         THEN (IF Len(vals) >= 3 THEN Some(vals[3]) ELSE Some(vals[1]))
         ELSE Some(vals[1])

-----------------------------------------------------------------------------
(* 5) Candidate model and the line extractor *)

LabelOrderUnscoped(sec) == INCOME_ORDER \o BALANCE_ORDER

\* label_sets of the extractors
LabelOrder(sec) ==
    IF sec = "pl" THEN INCOME_ORDER ELSE IF sec = "bs" THEN BALANCE_ORDER ELSE << >>

LabelSets(sec) == Range(LabelOrder(sec))

\* No bonus at all.
NoSectionBonus(metric, sec) == 0

\* +2 for a metric on its own primary statement
SectionBonus(metric, sec) ==
    IF metric \in INCOME_LABELS /\ sec = "pl" THEN 2
    ELSE IF metric \in BALANCE_LABELS /\ sec = "bs" THEN 2
    ELSE 0

Candidate(metric, v, page_number, snip, method, score) ==
    [metric |-> metric, value |-> v, page |-> page_number, snippet |-> snip,
     method |-> method, score |-> score]

\* The body of the loops of _extract_regex_candidates for one metric and one
\* line: the candidates it appends (none or one).
RegexLineCandidates(metric, ln, page_number, sec, cols) ==
    IF ln.label # metric THEN << >>
    ELSE LET v == PickCurrentYearValue(ExtractLineNumbers(ln.toks), cols, sec) IN
         IF v = None THEN << >>
         ELSE <<Candidate(metric, v[1], page_number, ln, "regex",
                          1 + SectionBonus(metric, sec))>>

\* _extract_regex_candidates: for metric in label_sets: for line in lines
RECURSIVE RegexOverLines(_, _, _, _, _)
RegexOverLines(metric, lns, page_number, sec, cols) ==
    IF lns = << >> THEN << >>
    ELSE RegexLineCandidates(metric, Head(lns), page_number, sec, cols)
         \o RegexOverLines(metric, Tail(lns), page_number, sec, cols)

RECURSIVE RegexOverMetrics(_, _, _, _, _)
RegexOverMetrics(order, lns, page_number, sec, cols) ==
    IF order = << >> THEN << >>
    ELSE RegexOverLines(Head(order), lns, page_number, sec, cols)
         \o RegexOverMetrics(Tail(order), lns, page_number, sec, cols)

ExtractRegexCandidates(lns, page_number, sec, cols) ==
    RegexOverMetrics(LabelOrder(sec), lns, page_number, sec, cols)

-----------------------------------------------------------------------------
(* The table extractor.  A table is [header, rows]: header[i] is the year    *)
(* 20dd found in header cell i (0 when the cell holds none); a row is a      *)
(* sequence of cells [kind, label, tok]: an empty cell, a text cell (label:  *)
(* the metric whose keyword the text starts with, "none" otherwise; the text *)
(* holds no digit) or a numeric cell.                                        *)

EmptyCell == [kind |-> "empty", label |-> "none", tok |-> [form |-> "plain", mag |-> 0]]

TextCell(label) == [kind |-> "text", label |-> label, tok |-> [form |-> "plain", mag |-> 0]]

NumCell(tok) == [kind |-> "num", label |-> "none", tok |-> tok]

\* parse_number on a cell
CellNumber(cell) == IF cell.kind = "num" THEN Some(ParseNumber(cell.tok)) ELSE None

YearColIdxFirstYear(hdr) ==
    IF \A i \in 1..Len(hdr) : hdr[i] = 0 THEN 0
    ELSE CHOOSE i \in 1..Len(hdr) : hdr[i] # 0 /\ \A j \in 1..(i - 1) : hdr[j] = 0

\* year_col_idx: the leftmost header cell with the highest year, 0 for None
\* (cells are numbered from 1 here, from 0 in the code).
YearColIdx(hdr) ==
    IF \A i \in 1..Len(hdr) : hdr[i] = 0 THEN 0
    ELSE CHOOSE i \in 1..Len(hdr) :
            /\ \A j \in 1..Len(hdr) : hdr[j] <= hdr[i]
            /\ \A j \in 1..(i - 1) : hdr[j] < hdr[i]

\* label_cell: the first cell that is not empty
LabelCell(row) ==
    IF \A i \in 1..Len(row) : row[i].kind = "empty" THEN EmptyCell
    ELSE row[CHOOSE i \in 1..Len(row) :
                /\ row[i].kind # "empty"
                /\ \A j \in 1..(i - 1) : row[j].kind = "empty"]

TableValueLimit == 100

\* the first cell after the first column whose value has magnitude >= 100
FirstLargeCell(row) ==
    LET ok(i) == CellNumber(row[i]) # None /\ Abs(CellNumber(row[i])[1]) >= TableValueLimit IN
    IF \E i \in 2..Len(row) : ok(i)
    THEN CellNumber(row[CHOOSE i \in 2..Len(row) : ok(i) /\ \A j \in 2..(i - 1) : ~ok(j)])
    ELSE None

\* value of a matched row
RowValue(hdr, row) ==
    LET idx == YearColIdx(hdr)
        v == IF idx # 0 /\ idx <= Len(row) THEN CellNumber(row[idx]) ELSE None
    IN IF v # None THEN v ELSE FirstLargeCell(row)

\* snippet of a row: its label and its numeric cells
RECURSIVE RowToks(_)
RowToks(row) ==
    IF row = << >> THEN << >>
    ELSE (IF Head(row).kind = "num" THEN <<Head(row).tok>> ELSE << >>) \o RowToks(Tail(row))

RowSnippet(row) == [label |-> LabelCell(row).label, toks |-> RowToks(row)]

\* the candidates of one row (none or one: a label matches one metric at most)
RowCandidates(hdr, row, page_number, sec) ==
    LET metric == LabelCell(row).label IN
    IF row = << >> \/ LabelCell(row).kind # "text" \/ metric \notin LabelSets(sec)
    THEN << >>
    ELSE LET v == RowValue(hdr, row) IN
         IF v = None THEN << >>
         ELSE <<Candidate(metric, v[1], page_number, RowSnippet(row), "table",
                          2 + SectionBonus(metric, sec))>>

RECURSIVE RowsCandidates(_, _, _, _)
RowsCandidates(hdr, rows, page_number, sec) ==
    IF rows = << >> THEN << >>
    ELSE RowCandidates(hdr, Head(rows), page_number, sec)
         \o RowsCandidates(hdr, Tail(rows), page_number, sec)

\* _extract_table_candidates
ExtractTableCandidates(table, page_number, sec) ==
    IF table.rows = << >> \/ LabelSets(sec) = {} THEN << >>
    ELSE RowsCandidates(table.header, table.rows, page_number, sec)

\* for table in page.extract_tables() or []
RECURSIVE TablesCandidates(_, _, _)
TablesCandidates(tables, page_number, sec) ==
    IF tables = << >> THEN << >>
    ELSE ExtractTableCandidates(Head(tables), page_number, sec)
         \o TablesCandidates(Tail(tables), page_number, sec)

-----------------------------------------------------------------------------
(* 6) Note-block extraction *)

(***************************************************************************)
(* A line of the full text as the note extractors read it is               *)
(* [start, words, text, toks]:                                             *)
(*   start  "N." when the stripped line begins with a number, a dot and a  *)
(*          blank, "AED" when it begins with the unit word, "" otherwise;  *)
(*   words  the phrases the extractors look for that occur in the          *)
(*          lower-cased line: "note20", "end20", "note8", "end8" stand for *)
(*          a match of the heading patterns, "aed" for the unit word, the  *)
(*          others for the keywords of the sub-metrics;                    *)
(*   text   whether the line holds a character outside [\d,.\s()-];        *)
(*   toks   its matches of _NUM_RE in order (the note number of an "N."    *)
(*          line and the "000" of "AED'000" are among them).               *)
(***************************************************************************)
BlankLine == [start |-> "", words |-> {}, text |-> FALSE, toks |-> << >>]

IsBlank(ln) == ~ln.text /\ ln.toks = << >>

\* _NUM_RE.search(line)
HasNumber(ln) == ln.toks # << >>

\* The phrases of a statement line that the note extractors also look for:
\* "investments at amortised cost" holds "amortised cost", the fvtoci label
\* holds "fair value through other comprehensive".
StatementWords(label) ==
    CASE label = "investments_amortised_cost" -> {"amortised cost"}
      [] label = "fvtoci" -> {"fvtoci"}
      [] OTHER -> {}

\* A labelled statement line as a line of the full text.
StatementText(ln) ==
    [start |-> "", words |-> StatementWords(ln.label), text |-> TRUE, toks |-> ln.toks]

\* text = page.extract_text(): the labelled lines, then the note lines
PageText(page) ==
    [i \in 1..Len(page.lines) |-> StatementText(page.lines[i])] \o page.notes

\* full_text = "\n".join(page_texts)
RECURSIVE FullText(_)
FullText(page_texts) ==
    IF page_texts = << >> THEN << >>
    ELSE PageText(Head(page_texts)) \o FullText(Tail(page_texts))

\* Index of the first line from line i on that holds word w, 0 when none does.
RECURSIVE FirstWith(_, _, _)
FirstWith(lns, w, i) ==
    IF i > Len(lns) THEN 0
    ELSE IF w \in lns[i].words THEN i
    ELSE FirstWith(lns, w, i + 1)

\* _find_note_block: the lines from the first heading match up to the first
\* end-heading match behind it, << >> for None.  Headings stand at the start
\* of a line, and the text behind the heading is shorter than the 3000
\* characters the block is cut at when no end heading follows.
FindNoteBlock(lns, note_pattern, end_pattern) ==
    LET s == FirstWith(lns, note_pattern, 1) IN
    IF s = 0 THEN << >>
    ELSE LET e == FirstWith(lns, end_pattern, s + 1) IN
         SubSeq(lns, s, IF e = 0 THEN Len(lns) ELSE e - 1)

\* merged[-1].rstrip() + " " + stripped
JoinLines(a, b) ==
    [start |-> a.start, words |-> a.words \cup b.words,
     text |-> a.text \/ b.text, toks |-> a.toks \o b.toks]

\* for line in raw_lines: ... of _extract_note20_breakdown, from line i on
RECURSIVE MergeFrom(_, _, _)
MergeFrom(merged, raw_lines, i) ==
    IF i > Len(raw_lines) THEN merged
    ELSE LET stripped == raw_lines[i] IN
         IF IsBlank(stripped) THEN MergeFrom(merged, raw_lines, i + 1)
         ELSE IF /\ merged # << >>
                 /\ ~HasNumber(merged[Len(merged)])
                 /\ merged[Len(merged)].start # "N."
                 /\ merged[Len(merged)].start # "AED"
              THEN MergeFrom([merged EXCEPT ![Len(merged)] = JoinLines(@, stripped)],
                             raw_lines, i + 1)
              ELSE MergeFrom(Append(merged, stripped), raw_lines, i + 1)

MergeWrapped(raw_lines) == MergeFrom(<< >>, raw_lines, 1)

NoteValueFloor == 100
Note8TotalFloor == 1000000
YearLow == 2000
YearHigh == 2099

\* nums = [n for n in nums if n is not None and abs(n) >= floor]
NoteNums(toks, floor) == SelectSeq(ParsedValues(toks), LAMBDA n : Abs(n) >= floor)

\* The numbers with the year values left in.
KeepYears(nums) == nums

\* nums = [n for n in nums if not (2000 <= n <= 2099)]
DropYears(nums) == SelectSeq(nums, LAMBDA n : ~(YearLow <= n /\ n <= YearHigh))

EmptyNote20 ==
    [investment_income_deposits |-> None,
     investment_income_amortised_cost |-> None,
     investment_income_fvtoci |-> None,
     investment_income_total |-> None]

\* One iteration of the sub-metric loop of _extract_note20_breakdown.
Note20Step(result, ln) ==
    LET nums == DropYears(NoteNums(ln.toks, NoteValueFloor)) IN
    IF nums = << >> THEN result
    ELSE IF "from deposits" \in ln.words /\ result.investment_income_deposits = None
         THEN [result EXCEPT !.investment_income_deposits = Some(nums[1])]
    ELSE IF "amortised cost" \in ln.words /\ result.investment_income_amortised_cost = None
         THEN [result EXCEPT !.investment_income_amortised_cost = Some(nums[1])]
    ELSE IF "fvtoci" \in ln.words /\ result.investment_income_fvtoci = None
         THEN [result EXCEPT !.investment_income_fvtoci = Some(nums[1])]
    ELSE result

RECURSIVE Note20Fold(_, _, _)
Note20Fold(result, lns, i) ==
    IF i > Len(lns) THEN result
    ELSE Note20Fold(Note20Step(result, lns[i]), lns, i + 1)

\* _YEAR_ONLY_RE = ^\s*20\d{2}\s+20\d{2}\s*$
IsYearOnly(ln) ==
    /\ ~ln.text
    /\ Len(ln.toks) = 2
    /\ \A i \in 1..2 : /\ ln.toks[i].form = "plain"
                       /\ YearLow <= ln.toks[i].mag
                       /\ ln.toks[i].mag <= YearHigh

\* "aed" in stripped.lower()
HasAed(ln) == ln.start = "AED" \/ "aed" \in ln.words

\* re.match(r"^[\d,.\s()-]+$", stripped)
NumbersOnly(ln) == ~ln.text /\ ln.toks # << >>

\* The scan for the note's stated total from line i on: the first number of
\* at least the floor on the first numbers-only line that has one.
RECURSIVE NoteTotalFrom(_, _, _)
NoteTotalFrom(lns, floor, i) ==
    IF i > Len(lns) THEN None
    ELSE IF IsYearOnly(lns[i]) \/ HasAed(lns[i]) THEN NoteTotalFrom(lns, floor, i + 1)
    ELSE IF NumbersOnly(lns[i]) /\ NoteNums(lns[i].toks, floor) # << >>
         THEN Some(NoteNums(lns[i].toks, floor)[1])
    ELSE NoteTotalFrom(lns, floor, i + 1)

NoteTotal(lns, floor) == NoteTotalFrom(lns, floor, 1)

\* _extract_note20_breakdown
ExtractNote20Breakdown(full_text) ==
    LET block == FindNoteBlock(full_text, "note20", "end20") IN
    IF block = << >> THEN EmptyNote20
    ELSE LET merged == MergeWrapped(block) IN
         [Note20Fold(EmptyNote20, merged, 1)
             EXCEPT !.investment_income_total = NoteTotal(merged, NoteValueFloor)]

EmptyNote8 ==
    [fvtoci_equity |-> None, fvtoci_funds |-> None,
     fvtoci_sukuk |-> None, fvtoci_total |-> None]

\* One iteration of the sub-component loop of _extract_note8_fvtoci_split.
Note8Step(result, ln) ==
    LET nums == DropYears(NoteNums(ln.toks, NoteValueFloor)) IN
    IF nums = << >> THEN result
    ELSE IF "equity securities" \in ln.words /\ result.fvtoci_equity = None
         THEN [result EXCEPT !.fvtoci_equity = Some(nums[1])]
    ELSE IF "managed fund" \in ln.words /\ result.fvtoci_funds = None
         THEN [result EXCEPT !.fvtoci_funds = Some(nums[1])]
    ELSE IF "investment in sukuk" \in ln.words /\ result.fvtoci_sukuk = None
         THEN [result EXCEPT !.fvtoci_sukuk = Some(nums[1])]
    ELSE result

RECURSIVE Note8Fold(_, _, _)
Note8Fold(result, lns, i) ==
    IF i > Len(lns) THEN result
    ELSE Note8Fold(Note8Step(result, lns[i]), lns, i + 1)

\* _extract_note8_fvtoci_split
ExtractNote8FvtociSplit(full_text) ==
    LET block == FindNoteBlock(full_text, "note8", "end8") IN
    IF block = << >> THEN EmptyNote8
    ELSE [Note8Fold(EmptyNote8, block, 1)
             EXCEPT !.fvtoci_total = NoteTotal(block, Note8TotalFloor)]

-----------------------------------------------------------------------------
(* Period detection *)

\* The shortest period that is mentioned.
DetectShortestPeriod(wording) ==
    IF "three-month" \in wording THEN 3
    ELSE IF "six-month" \in wording THEN 6
    ELSE IF "nine-month" \in wording THEN 9
    ELSE 12

\* _detect_period_months: wording is the set of period phrases that occur
\* in the lower-cased full text.
DetectPeriodMonths(wording) ==
    IF "nine-month" \in wording THEN 9
    ELSE IF "six-month" \in wording THEN 6
    ELSE IF "three-month" \in wording THEN 3
    ELSE 12

\* The period phrases of the full text.
RECURSIVE FullWording(_)
FullWording(page_texts) ==
    IF page_texts = << >> THEN {}
    ELSE Head(page_texts).wording \cup FullWording(Tail(page_texts))

-----------------------------------------------------------------------------
(* 2) Section detection *)

SECTION_ORDER == <<"pl", "bs", "oci", "cashflow">>

\* _classify_page: head is the set of sections one of whose heading phrases
\* occurs in text[:1500].lower(); the first section of SECTION_PATTERNS in it.
ClassifyPage(head) ==
    IF \A i \in 1..Len(SECTION_ORDER) : SECTION_ORDER[i] \notin head THEN NoSection
    ELSE SECTION_ORDER[CHOOSE i \in 1..Len(SECTION_ORDER) :
                          /\ SECTION_ORDER[i] \in head
                          /\ \A j \in 1..(i - 1) : SECTION_ORDER[j] \notin head]

\* if section not in ("pl", "bs"): continue
PrimarySections == {"pl", "bs"}

\* One iteration of pass 2 of parse_pdf_financials: the candidates of a page.
PageCandidates(page, page_number, sec) ==
    IF sec \notin PrimarySections THEN << >>
    ELSE ExtractRegexCandidates(page.lines, page_number, sec, DetectColumnCount(page.years))
         \o TablesCandidates(page.tables, page_number, sec)

-----------------------------------------------------------------------------
(* 7) Best candidate selection *)

\* _METHOD_RANK.get(method, 0)
MethodRankSwapped(method) ==
    CASE method = "table" -> 0
      [] method = "note_block" -> 1
      [] OTHER -> 2

MethodRank(method) ==
    CASE method = "table" -> 2
      [] method = "note_block" -> 1
      [] OTHER -> 0

\* Position of the entry of metric m in the ordered dict d, 0 when absent.
KeyIndex(d, m) ==
    IF \E i \in 1..Len(d) : d[i].metric = m
    THEN CHOOSE i \in 1..Len(d) : d[i].metric = m
    ELSE 0

\* The conditions under which the candidate c replaces the existing entry.
ReplacesLowerScore(c, existing) ==
    \/ c.score < existing.score
    \/ /\ c.score = existing.score
       /\ \/ MethodRank(c.method) > MethodRank(existing.method)
          \/ /\ MethodRank(c.method) = MethodRank(existing.method)
             /\ c.metric \in BALANCE_LABELS
             /\ Abs(c.value) > Abs(existing.value)

ReplacesSignedValue(c, existing) ==
    \/ c.score > existing.score
    \/ /\ c.score = existing.score
       /\ \/ MethodRank(c.method) > MethodRank(existing.method)
          \/ /\ MethodRank(c.method) = MethodRank(existing.method)
             /\ c.metric \in BALANCE_LABELS
             /\ c.value > existing.value

ReplacesAlways(c, existing) == TRUE

Replaces(c, existing) ==
    \/ c.score > existing.score
    \/ /\ c.score = existing.score
       /\ \/ MethodRank(c.method) > MethodRank(existing.method)
          \/ /\ MethodRank(c.method) = MethodRank(existing.method)
             /\ c.metric \in BALANCE_LABELS
             /\ Abs(c.value) > Abs(existing.value)

\* One iteration of the loop of _best_candidates.
BestStep(d, c) ==
    LET i == KeyIndex(d, c.metric) IN
    IF i = 0 THEN Append(d, c)
    ELSE IF Replaces(c, d[i]) THEN [d EXCEPT ![i] = c]
    ELSE d

RECURSIVE BestFold(_, _)
BestFold(d, cands) ==
    IF cands = << >> THEN d ELSE BestFold(BestStep(d, Head(cands)), Tail(cands))

BestCandidates(cands) == BestFold(<< >>, cands)

-----------------------------------------------------------------------------
(* The resolver on arbitrary candidate lists: the loop of _best_candidates   *)
(* receives one candidate per step.                                          *)

NoSnippet == [label |-> "none", toks |-> << >>]

ResolveMetrics == {"investment_income", "fvtoci"}
ResolveValues == {-300, 200}
ResolveMethods == {"table", "note_block", "regex"}
ResolveScores == {3, 4}

ResolveUniverse ==
    [metric : ResolveMetrics, value : ResolveValues, page : {1},
     snippet : {NoSnippet}, method : ResolveMethods, score : ResolveScores]

lineIdle ==
    /\ section = NoSection /\ header = << >> /\ col_count = 0
    /\ line = NoSnippet /\ values = << >> /\ value = None

parseIdle ==
    /\ pages = << >> /\ page_sections = << >> /\ page_idx = 0
    /\ metrics = << >> /\ audit = << >>

noteIdle == note20 = EmptyNote20 /\ note8 = EmptyNote8 /\ warnings = << >>

portfolioIdle == total_portfolio = None /\ ear_portfolio = None

numberIdle == raw = NoValue /\ number = None

tableIdle == page_table = [header |-> << >>, rows |-> << >>]

classifyIdle == page_text = << >> /\ page_tag = NoSection

blockIdle == note_text = << >> /\ note_lines = << >>

InitResolve ==
    /\ pc = "best_loop"
    /\ candidates = << >>
    /\ best = << >>
    /\ lineIdle
    /\ parseIdle
    /\ noteIdle
    /\ portfolioIdle
    /\ numberIdle
    /\ tableIdle
    /\ classifyIdle
    /\ blockIdle

\* for c in candidates: ... (one iteration, the candidate being any of the universe)
Consider(c) ==
    /\ pc = "best_loop"
    /\ Len(candidates) < MaxCands
    /\ candidates' = Append(candidates, c)
    /\ best' = BestStep(best, c)
    /\ UNCHANGED <<pc, lineVars, parseVars, noteVars, portfolioVars, numberVars, tableVars, classifyVars, blockVars>>

\* return best
ReturnBest ==
    /\ pc = "best_loop"
    /\ pc' = "best_done"
    /\ UNCHANGED <<resolveVars, lineVars, parseVars, noteVars, portfolioVars, numberVars, tableVars, classifyVars, blockVars>>

NextResolve ==
    \/ \E c \in ResolveUniverse : Consider(c)
    \/ ReturnBest

SpecResolve == InitResolve /\ [][NextResolve]_vars

\* The candidates of metric m in a list, as a set of positions.
Of(cands, m) == {i \in 1..Len(cands) : cands[i].metric = m}

\* C1: the candidate kept for a metric has the maximal score among all the
\* candidates of that metric, and exactly one candidate is kept per metric
\* that has at least one candidate (none for a metric without candidates).
C1_MaxScoreOnePerMetric ==
    \A m \in ResolveMetrics :
        /\ Cardinality(Of(best, m)) = (IF Of(candidates, m) = {} THEN 0 ELSE 1)
        /\ \A k \in Of(best, m) :
              /\ \E i \in Of(candidates, m) : candidates[i] = best[k]
              /\ \A i \in Of(candidates, m) : candidates[i].score <= best[k].score

C1_Witness ==
    /\ pc = "best_done"
    /\ Len(candidates) = 3
    /\ \A i \in 1..3 : candidates[i].metric = "investment_income"
    /\ candidates[1].score = 3 /\ candidates[2].score = 4 /\ candidates[3].score = 3
    /\ Len(best) = 1 /\ best[1] = candidates[2]

\* C2: among the candidates of a metric with the maximal score, the kept one
\* has the highest method priority (table > note_block > regex); a table and
\* a regex candidate of equal score resolve to the table one in either order.
C2_MethodPriority ==
    \A m \in ResolveMetrics : \A k \in Of(best, m) :
        \A i \in Of(candidates, m) :
            candidates[i].score = best[k].score =>
                /\ MethodRank(candidates[i].method) <= MethodRank(best[k].method)
                /\ (candidates[i].method = "table" => best[k].method = "table")

C2_Witness ==
    /\ Len(candidates) = 2
    /\ candidates[1].metric = candidates[2].metric
    /\ candidates[1].score = candidates[2].score
    /\ candidates[1].method = "table" /\ candidates[2].method = "regex"
    /\ candidates[1].value # candidates[2].value
    /\ best = <<candidates[1]>>

C2_WitnessTableSecond ==
    /\ Len(candidates) = 2
    /\ candidates[1].metric = candidates[2].metric
    /\ candidates[1].score = candidates[2].score
    /\ candidates[1].method = "regex" /\ candidates[2].method = "table"
    /\ candidates[1].value # candidates[2].value
    /\ best = <<candidates[2]>>

\* C3: for a balance metric, among the candidates with the score and the
\* method priority of the kept one (the maximal ones), the kept candidate has
\* the largest absolute value.
C3_BalanceMagnitude ==
    \A m \in ResolveMetrics \cap BALANCE_LABELS : \A k \in Of(best, m) :
        \A i \in Of(candidates, m) :
            (/\ candidates[i].score = best[k].score
             /\ MethodRank(candidates[i].method) = MethodRank(best[k].method))
                => Abs(candidates[i].value) <= Abs(best[k].value)

C3_Witness ==
    /\ Len(candidates) = 2
    /\ candidates[1].metric = "fvtoci" /\ candidates[2].metric = "fvtoci"
    /\ candidates[1].score = candidates[2].score
    /\ candidates[1].method = candidates[2].method
    /\ candidates[1].value = 200 /\ candidates[2].value = -300
    /\ best = <<candidates[2]>>

-----------------------------------------------------------------------------
(* The line extractor on one matched line of one page: the steps that        *)
(* parse_pdf_financials and _extract_regex_candidates take for it.           *)

LineMags == {99, 100, 250}
LineForms == {"plain", "paren"}
LineToks == [form : LineForms, mag : LineMags]

Plain(n) == [form |-> "plain", mag |-> n]

\* "Trading commission fees 113,272 45,827 310,195 138,179"
ScenarioA ==
    [label |-> "trading_commission",
     toks |-> <<Plain(113272), Plain(45827), Plain(310195), Plain(138179)>>]

\* "Investment deposits 4,134,622 3,820,000"
ScenarioB ==
    [label |-> "investment_deposits",
     toks |-> <<Plain(4134622), Plain(3820000)>>]

\* "-99 -(250) 100": a leading minus, and a minus in front of parentheses
SignedToks ==
    <<[form |-> "minus", mag |-> 99], [form |-> "minusparen", mag |-> 250], Plain(100)>>

\* The lines of a page of section sec whose label is one of the section's.
LineUniverse(sec) ==
    LET label == IF sec = "pl" THEN "trading_commission" ELSE "investment_deposits" IN
    {[label |-> label, toks |-> t] :
        t \in UNION {[1..n -> LineToks] : n \in 0..MaxTokens}}
    \cup {ln \in {ScenarioA, ScenarioB} : ln.label = label}
    \cup {[label |-> label, toks |-> SignedToks]}

\* Year tokens of the leading lines of a page.
HeaderUniverse ==
    { << >>,
      << <<2025, 2024>> >>,
      << <<2024, 2025>> >>,
      << <<2025, 2024, 2025, 2024>> >>,
      << <<2024, 2025, 2024, 2025>> >>,
      << <<2025>>, <<2025, 2024>> >>,
      << <<2025, 2024>>, <<2025, 2024, 2025, 2024>> >> }

InitLine ==
    /\ pc = "detect_columns"
    /\ section \in {"pl", "bs"}
    /\ header \in HeaderUniverse
    /\ line \in LineUniverse(section)
    /\ col_count = 0
    /\ values = << >>
    /\ value = None
    /\ candidates = << >>
    /\ best = << >>
    /\ parseIdle
    /\ noteIdle
    /\ portfolioIdle
    /\ numberIdle
    /\ tableIdle
    /\ classifyIdle
    /\ blockIdle

\* col_count = _detect_column_count(text)
DetectColumns ==
    /\ pc = "detect_columns"
    /\ col_count' = DetectColumnCount(header)
    /\ pc' = "extract_numbers"
    /\ UNCHANGED <<section, header, line, values, value, resolveVars, parseVars, noteVars, portfolioVars, numberVars, tableVars, classifyVars, blockVars>>

\* values = _extract_line_numbers(line, actual_end)
ExtractNumbers ==
    /\ pc = "extract_numbers"
    /\ values' = ExtractLineNumbers(line.toks)
    /\ pc' = "pick_value"
    /\ UNCHANGED <<section, header, line, col_count, value, resolveVars, parseVars, noteVars, portfolioVars, numberVars, tableVars, classifyVars, blockVars>>

\* value = _pick_current_year_value(values, col_count, section)
PickValue ==
    /\ pc = "pick_value"
    /\ value' = PickCurrentYearValue(values, col_count, section)
    /\ pc' = "append"
    /\ UNCHANGED <<section, header, line, col_count, values, resolveVars, parseVars, noteVars, portfolioVars, numberVars, tableVars, classifyVars, blockVars>>

\* if value is None: continue / candidates.append(Candidate(...))
AppendCandidate ==
    /\ pc = "append"
    /\ candidates' =
          IF value = None THEN candidates
          ELSE Append(candidates,
                      Candidate(line.label, value[1], 1, line, "regex",
                                1 + SectionBonus(line.label, section)))
    /\ pc' = "line_done"
    /\ UNCHANGED <<best, lineVars, parseVars, noteVars, portfolioVars, numberVars, tableVars, classifyVars, blockVars>>

NextLine == DetectColumns \/ ExtractNumbers \/ PickValue \/ AppendCandidate

SpecLine == InitLine /\ [][NextLine]_vars

Picked == pc \in {"append", "line_done"}

FourColumnIncome == col_count = 4 /\ section = "pl"

\* C5: on an income-statement page detected as 4-column the selector returns
\* the third of the remaining tokens when at least three remain and the first
\* when one or two remain; scenario A yields 310195.
C5_FourColumnThirdToken ==
    (Picked /\ FourColumnIncome) =>
        /\ Len(values) >= 3 => value = Some(values[3])
        /\ Len(values) \in {1, 2} => value = Some(values[1])
        /\ line = ScenarioA => value = Some(310195)

C5_Witness ==
    /\ pc = "line_done"
    /\ FourColumnIncome
    /\ line = ScenarioA
    /\ value = Some(310195)
    /\ Len(candidates) = 1 /\ candidates[1].value = 310195

\* A first token below 100 followed by some token of 100 or more.
NoteRefFirst(toks) ==
    /\ Len(toks) >= 2
    /\ toks[1].mag < 100
    /\ \E i \in 2..Len(toks) : toks[i].mag >= 100

\* C6: when the first token has magnitude below 100 and a later one 100 or
\* more, the values handed to the selector are those of the tokens after the
\* first (so that on a 4-column income-statement page the third of the
\* remaining tokens is selected when three remain); otherwise the first token
\* is kept.
C6_NoteRefDiscarded ==
    pc \in {"pick_value", "append", "line_done"} =>
        LET toks == line.toks IN
        /\ NoteRefFirst(toks) =>
              /\ Len(values) = Len(toks) - 1
              /\ \A i \in 1..Len(values) : values[i] = ParseNumber(toks[i + 1])
        /\ ~NoteRefFirst(toks) =>
              /\ Len(values) = Len(toks)
              /\ \A i \in 1..Len(values) : values[i] = ParseNumber(toks[i])
        /\ (NoteRefFirst(toks) /\ Picked /\ FourColumnIncome /\ Len(toks) >= 4) =>
              value = Some(ParseNumber(toks[4]))

C6_Witness ==
    /\ pc = "line_done"
    /\ FourColumnIncome
    /\ Len(line.toks) = 4
    /\ line.toks[1] = Plain(99)
    /\ line.toks[2] = Plain(100)
    /\ line.toks[3] = Plain(250)
    /\ line.toks[4] = [form |-> "paren", mag |-> 250]
    /\ values = <<100, 250, -250>>
    /\ value = Some(-250)

\* C7: on every page that is not a 4-column income-statement page the
\* selected value is the first token remaining after the pre-filter;
\* scenario B on a 2-column balance-sheet page yields 4134622.
C7_FirstTokenElsewhere ==
    (Picked /\ ~FourColumnIncome) =>
        /\ values # << >> => value = Some(values[1])
        /\ values = << >> => value = None
        /\ line = ScenarioB => value = Some(4134622)

C7_Witness ==
    /\ pc = "line_done"
    /\ section = "bs" /\ col_count = 2
    /\ line = ScenarioB
    /\ value = Some(4134622)

\* The header line that decided the column count, << >> when none did.
RECURSIVE HeaderYearsFrom(_, _)
HeaderYearsFrom(ylines, i) ==
    IF i > Len(ylines) \/ i > HeaderScanLines THEN << >>
    ELSE IF Len(ylines[i]) >= 4 \/ Len(ylines[i]) = 2 THEN ylines[i]
    ELSE HeaderYearsFrom(ylines, i + 1)

HeaderYears == HeaderYearsFrom(header, 1)

\* The leftmost column that carries the highest year.
HighestYearIndex(years) ==
    CHOOSE i \in 1..Len(years) :
        /\ \A j \in 1..Len(years) : years[j] <= years[i]
        /\ \A j \in 1..(i - 1) : years[j] < years[i]

\* The line has one token per header year.
Aligned == HeaderYears # << >> /\ Len(values) = Len(HeaderYears)

\* C8 as stated: off 4-column income-statement pages the selected value is the
\* token aligned with the highest header year, whatever the order of the
\* header years, and the first token only when no header year is detected.
C8_HighestYearToken ==
    (Picked /\ ~FourColumnIncome /\ values # << >>) =>
        /\ Aligned => value = Some(values[HighestYearIndex(HeaderYears)])
        /\ HeaderYears = << >> => value = Some(values[1])

\* C8 amended: off 4-column income-statement pages the selected value is the
\* token of the leftmost column, with or without a detected header year; it is
\* the token aligned with the highest header year when that year heads the
\* leftmost column.
C8_LeftmostToken ==
    (Picked /\ ~FourColumnIncome /\ values # << >>) =>
        /\ (Aligned /\ HighestYearIndex(HeaderYears) = 1) =>
              value = Some(values[HighestYearIndex(HeaderYears)])
        /\ (Aligned /\ HighestYearIndex(HeaderYears) # 1) =>
              /\ value = Some(values[1])
              /\ (values[1] # values[HighestYearIndex(HeaderYears)] =>
                     value # Some(values[HighestYearIndex(HeaderYears)]))
        /\ HeaderYears = << >> => value = Some(values[1])

C8_Witness ==
    /\ pc = "line_done"
    /\ section = "bs"
    /\ HeaderYears = <<2024, 2025>>
    /\ values = <<100, 250>>
    /\ value = Some(100)

-----------------------------------------------------------------------------
(* 8) parse_pdf_financials: passes 1 to 3 on a document of up to MaxPages     *)
(* pages.                                                                    *)

Years2 == << <<2025, 2024>> >>
Years4 == << <<2025, 2024, 2025, 2024>> >>

\* "Trading commission fees 120,000 50,000 320,000 140,000"
IncomeLineB ==
    [label |-> "trading_commission",
     toks |-> <<Plain(120000), Plain(50000), Plain(320000), Plain(140000)>>]

\* The row of scenario A under the header of the page, a blank cell above the labels.
TableA ==
    [header |-> <<0, 2025, 2024, 2025, 2024>>,
     rows |-> << <<TextCell("trading_commission"), NumCell(Plain(113272)),
                   NumCell(Plain(45827)), NumCell(Plain(310195)),
                   NumCell(Plain(138179))>> >>]

\* "Financial assets measured at fair value through other comprehensive income 1,470,289 1,411,836"
BalanceLineX ==
    [label |-> "fvtoci", toks |-> <<Plain(1470289), Plain(1411836)>>]

\* the same label in front of "(1,470,289) 1,411,836"
BalanceLineY ==
    [label |-> "fvtoci",
     toks |-> <<[form |-> "paren", mag |-> 1470289], Plain(1411836)>>]

\* A table whose header lists the prior year first.
TableZ ==
    [header |-> <<0, 2024, 2025>>,
     rows |-> << <<TextCell("fvtoci"), NumCell(Plain(1411836)),
                   NumCell(Plain(1470289))>> >>]

\* A table that gives the same label a smaller figure than the line does.
TableSmall ==
    [header |-> <<0, 2025, 2024>>,
     rows |-> << <<TextCell("fvtoci"), NumCell(Plain(826)), NumCell(Plain(900))>> >>]

PageContents ==
    { [years |-> Years4, lines |-> <<ScenarioA>>, tables |-> << >>],
      [years |-> Years4, lines |-> <<ScenarioA>>, tables |-> <<TableA>>],
      [years |-> Years4, lines |-> <<IncomeLineB>>, tables |-> << >>],
      [years |-> Years2, lines |-> <<BalanceLineX>>, tables |-> << >>],
      [years |-> Years2, lines |-> <<BalanceLineY>>, tables |-> << >>],
      [years |-> Years2, lines |-> << >>, tables |-> <<TableZ>>],
      [years |-> Years2, lines |-> <<BalanceLineX>>, tables |-> <<TableSmall>>] }

PageHeads == {{"pl"}, {"bs"}, {"oci"}, {"cashflow"}, {}}

PageUniverse ==
    {[head |-> h, years |-> k.years, lines |-> k.lines, tables |-> k.tables,
      wording |-> {}, notes |-> << >>] :
        h \in PageHeads, k \in PageContents}

InitParse ==
    /\ pc = "read_pages"
    /\ pages = << >>
    /\ page_sections = << >>
    /\ page_idx = 0
    /\ candidates = << >>
    /\ best = << >>
    /\ metrics = << >>
    /\ audit = << >>
    /\ lineIdle
    /\ noteIdle
    /\ portfolioIdle
    /\ numberIdle
    /\ tableIdle
    /\ classifyIdle
    /\ blockIdle

\* PASS 1, one page: page_texts.append(text); page_sections.append(_classify_page(text))
ReadPage(page) ==
    /\ pc = "read_pages"
    /\ Len(pages) < MaxPages
    /\ pages' = Append(pages, page)
    /\ page_sections' = Append(page_sections, ClassifyPage(page.head))
    /\ UNCHANGED <<pc, page_idx, metrics, audit, resolveVars, lineVars, noteVars, portfolioVars, numberVars, tableVars, classifyVars, blockVars>>

\* pdf.pages is exhausted: pass 2 starts
EndPass1 ==
    /\ pc = "read_pages"
    /\ pc' = "extract"
    /\ UNCHANGED <<resolveVars, lineVars, parseVars, noteVars, portfolioVars, numberVars, tableVars, classifyVars, blockVars>>

\* PASS 2, one page
ExtractPage ==
    /\ pc = "extract"
    /\ page_idx < Len(pages)
    /\ page_idx' = page_idx + 1
    /\ candidates' = candidates \o
          PageCandidates(pages[page_idx + 1], page_idx + 1, page_sections[page_idx + 1])
    /\ UNCHANGED <<pc, best, pages, page_sections, metrics, audit, lineVars, noteVars, portfolioVars, numberVars, tableVars, classifyVars, blockVars>>

\* PASS 3: best = _best_candidates(candidates)
Resolve ==
    /\ pc = "extract"
    /\ page_idx = Len(pages)
    /\ best' = BestCandidates(candidates)
    /\ pc' = "fill"
    /\ UNCHANGED <<candidates, lineVars, parseVars, noteVars, portfolioVars, numberVars, tableVars, classifyVars, blockVars>>

\* confidence is "score=<n>" here (kind "score")
AuditEntry(c) ==
    [metric_name |-> c.metric, value |-> c.value, method |-> c.method,
     page |-> Some(c.page), snippet |-> c.snippet,
     confidence |-> [kind |-> "score", score |-> c.score]]

\* for metric, candidate in best.items(): metrics[metric] = ...; audit.append(...)
FillMetrics ==
    /\ pc = "fill"
    /\ metrics' = [m \in {best[i].metric : i \in 1..Len(best)} |->
                      best[KeyIndex(best, m)].value]
    /\ audit' = audit \o [i \in 1..Len(best) |-> AuditEntry(best[i])]
    /\ pc' = "resolved"
    /\ UNCHANGED <<pages, page_sections, page_idx, resolveVars, lineVars, noteVars, portfolioVars, numberVars, tableVars, classifyVars, blockVars>>

\* metrics[key] = value
Put(d, key, v) == [k \in DOMAIN d \cup {key} |-> IF k = key THEN v ELSE d[k]]

\* metrics.get(key)
Get(d, key) == IF key \in DOMAIN d THEN Some(d[key]) ELSE None

\* PASS 4: metrics["period_months"] = _detect_period_months(full_text)
DetectPeriod ==
    /\ pc = "resolved"
    /\ metrics' = Put(metrics, "period_months", DetectPeriodMonths(FullWording(pages)))
    /\ pc' = "notes"
    /\ UNCHANGED <<pages, page_sections, page_idx, audit, resolveVars, lineVars,
                   noteVars, portfolioVars, numberVars, tableVars, classifyVars, blockVars>>

\* PASS 5: note20 = _extract_note20_breakdown(full_text); note8 = ...
ExtractNotes ==
    /\ pc = "notes"
    /\ note20' = ExtractNote20Breakdown(FullText(pages))
    /\ note8' = ExtractNote8FvtociSplit(FullText(pages))
    /\ pc' = "merge"
    /\ UNCHANGED <<warnings, parseVars, resolveVars, lineVars, portfolioVars, numberVars, tableVars, classifyVars, blockVars>>

NOTE20_KEYS ==
    <<"investment_income_deposits", "investment_income_amortised_cost",
      "investment_income_fvtoci">>

NOTE8_KEYS == <<"fvtoci_equity", "fvtoci_funds", "fvtoci_sukuk">>

RECURSIVE MergeKeysZeroFill(_, _, _, _)
MergeKeysZeroFill(d, note, keys, i) ==
    IF i > Len(keys) THEN d
    ELSE MergeKeysZeroFill(Put(d, keys[i], IF note[keys[i]] = None THEN 0
                                           ELSE note[keys[i]][1]),
                           note, keys, i + 1)

\* for key in keys: if note.get(key) is not None: metrics[key] = note[key]
RECURSIVE MergeKeys(_, _, _, _)
MergeKeys(d, note, keys, i) ==
    IF i > Len(keys) THEN d
    ELSE MergeKeys(IF note[keys[i]] # None THEN Put(d, keys[i], note[keys[i]][1]) ELSE d,
                   note, keys, i + 1)

\* Merge note breakdown into metrics
MergeNotes ==
    /\ pc = "merge"
    /\ metrics' = MergeKeys(MergeKeys(metrics, note20, NOTE20_KEYS, 1), note8, NOTE8_KEYS, 1)
    /\ pc' = "fallback"
    /\ UNCHANGED <<pages, page_sections, page_idx, audit, resolveVars, lineVars,
                   noteVars, portfolioVars, numberVars, tableVars, classifyVars, blockVars>>

FvtociFallbackLimit == 1000

\* The fallback as its comment words it: only when fvtoci is no key of metrics.
FallbackOnlyWhenAbsent(d, n8) ==
    /\ "fvtoci" \notin DOMAIN d
    /\ n8.fvtoci_total # None

\* if "fvtoci" not in metrics or metrics.get("fvtoci", 0) < 1000:
\*     if note8.get("fvtoci_total") is not None:
FallbackApplies(d, n8) ==
    /\ "fvtoci" \notin DOMAIN d \/ d["fvtoci"] < FvtociFallbackLimit
    /\ n8.fvtoci_total # None

FallbackAudit(n8) ==
    [metric_name |-> "fvtoci", value |-> n8.fvtoci_total[1], method |-> "note_block",
     page |-> None,
     snippet |-> [label |-> "FVTOCI total from Note 8 block", toks |-> << >>],
     confidence |-> [kind |-> "fallback", score |-> 0]]

\* FVTOCI fallback
FvtociFallback ==
    /\ pc = "fallback"
    /\ IF FallbackApplies(metrics, note8)
       THEN /\ metrics' = Put(metrics, "fvtoci", note8.fvtoci_total[1])
            /\ audit' = Append(audit, FallbackAudit(note8))
       ELSE UNCHANGED <<metrics, audit>>
    /\ pc' = "validate"
    /\ UNCHANGED <<pages, page_sections, page_idx, resolveVars, lineVars,
                   noteVars, portfolioVars, numberVars, tableVars, classifyVars, blockVars>>

ToleranceFloor == 2
TolerancePerMille == 5

ExceedsAnyDifference(diff, headline) == diff > 0

\* diff > tol, where tol = max(abs(headline) * 0.005, 2): diff is above the
\* maximum when it is above both.
ExceedsTolerance(diff, headline) ==
    /\ diff > ToleranceFloor
    /\ diff * 1000 > Abs(headline) * TolerancePerMille

\* The text of a warning names the compared value, the headline and the delta.
Warning(check, compared, headline) ==
    [check |-> check, compared |-> compared, headline |-> headline,
     delta |-> Abs(headline - compared)]

\* note20.get(k) or 0
OrZero(opt) == IF opt = None THEN 0 ELSE opt[1]

\* bkdn = sum(note20.get(k) or 0 for k in [...])
BreakdownSum(n20) ==
    OrZero(n20.investment_income_deposits)
    + OrZero(n20.investment_income_amortised_cost)
    + OrZero(n20.investment_income_fvtoci)

NoteTotalWarning(h, n20) ==
    LET note_total == OrZero(n20.investment_income_total) IN
    IF note_total # 0 /\ ExceedsTolerance(Abs(h - note_total), h)
    THEN <<Warning("note_total", note_total, h)>>
    ELSE << >>

BreakdownWarningAgainstZero(h, n20) ==
    LET bkdn == BreakdownSum(n20) IN
    IF ExceedsTolerance(Abs(h - bkdn), h)
    THEN <<Warning("breakdown_sum", bkdn, h)>>
    ELSE << >>

BreakdownWarning(h, n20) ==
    LET bkdn == BreakdownSum(n20) IN
    IF bkdn > 0 /\ ExceedsTolerance(Abs(h - bkdn), h)
    THEN <<Warning("breakdown_sum", bkdn, h)>>
    ELSE << >>

\* PASS 6 on the merged metrics and the note breakdown.
ValidationWarnings(d, n20) ==
    LET headline == OrZero(Get(d, "investment_income")) IN
    IF headline = 0 THEN << >>
    ELSE NoteTotalWarning(headline, n20) \o BreakdownWarning(headline, n20)

\* PASS 6: Validation, and the return of the result
Validate ==
    /\ pc = "validate"
    /\ warnings' = warnings \o ValidationWarnings(metrics, note20)
    /\ pc' = "returned"
    /\ UNCHANGED <<note20, note8, parseVars, resolveVars, lineVars, portfolioVars, numberVars, tableVars, classifyVars, blockVars>>

\* The passes behind the page loop.
NextPasses ==
    \/ EndPass1
    \/ ExtractPage
    \/ Resolve
    \/ FillMetrics
    \/ DetectPeriod
    \/ ExtractNotes
    \/ MergeNotes
    \/ FvtociFallback
    \/ Validate

NextParse ==
    \/ \E page \in PageUniverse : ReadPage(page)
    \/ NextPasses

SpecParse == InitParse /\ [][NextParse]_vars

\* The metrics the documents of PageUniverse mention.
ParseMetrics == {"trading_commission", "fvtoci"}

Has(d, m) == KeyIndex(d, m) # 0

Entry(d, m) == d[KeyIndex(d, m)]

\* The orders in which the pages' candidates can reach the resolver.
PageOrders ==
    {f \in [1..Len(pages) -> 1..Len(pages)] :
        \A i, j \in 1..Len(pages) : f[i] = f[j] => i = j}

\* The candidate list when the pages are delivered in the order f, each page
\* keeping its number.
RECURSIVE DeliveredFrom(_, _)
DeliveredFrom(f, i) ==
    IF i > Len(pages) THEN << >>
    ELSE PageCandidates(pages[f[i]], f[i], page_sections[f[i]]) \o DeliveredFrom(f, i + 1)

ResolvedIn(f) == BestCandidates(DeliveredFrom(f, 1))

\* table > note_block > regex
Priority(method) ==
    CASE method = "table" -> 3 [] method = "note_block" -> 2 [] OTHER -> 1

\* The documented comparator: score, then method priority, then, for a balance
\* metric, magnitude.
Outranks(d, c) ==
    \/ d.score > c.score
    \/ d.score = c.score /\ Priority(d.method) > Priority(c.method)
    \/ /\ d.score = c.score /\ Priority(d.method) = Priority(c.method)
       /\ c.metric \in BALANCE_LABELS /\ Abs(d.value) > Abs(c.value)

\* The values of the candidates of m that no candidate of m outranks.
TopValues(m) ==
    {candidates[i].value : i \in
        {i \in Of(candidates, m) :
            \A j \in Of(candidates, m) : ~Outranks(candidates[j], candidates[i])}}

\* C4 as stated: the resolved value of every metric is the same for every
\* order in which the pages' candidates are delivered.
C4_SameValueInEveryOrder ==
    pc = "resolved" =>
        \A f \in PageOrders : \A m \in ParseMetrics :
            /\ Has(ResolvedIn(f), m) <=> m \in DOMAIN metrics
            /\ Has(ResolvedIn(f), m) => Entry(ResolvedIn(f), m).value = metrics[m]

\* C4 amended: the score and the method of the resolved candidate, and for a
\* balance metric its magnitude, are the same for every delivery order; its
\* value is the same for every order when the candidates that no other
\* outranks carry one value.
C4_SameRankInEveryOrder ==
    pc = "resolved" =>
        \A f \in PageOrders : \A m \in ParseMetrics :
            /\ Has(ResolvedIn(f), m) <=> m \in DOMAIN metrics
            /\ Has(ResolvedIn(f), m) =>
                  LET e == Entry(ResolvedIn(f), m) IN
                  /\ e.score = Entry(best, m).score
                  /\ e.method = Entry(best, m).method
                  /\ m \in BALANCE_LABELS => Abs(e.value) = Abs(metrics[m])
                  /\ Cardinality(TopValues(m)) = 1 => e.value = metrics[m]

\* Two income-statement pages: a line and its table row on the first, the
\* same line on the second; the table candidate wins in both orders.
C4_Witness ==
    /\ pc = "resolved"
    /\ Len(pages) = 2
    /\ page_sections = <<"pl", "pl">>
    /\ Len(candidates) = 3
    /\ candidates[1].method = "regex" /\ candidates[2].method = "table"
    /\ candidates[3].method = "regex" /\ candidates[3].page = 2
    /\ \A f \in PageOrders : Entry(ResolvedIn(f), "trading_commission").method = "table"
    /\ metrics["trading_commission"] = candidates[2].value

FourColumnIncomePage(i) ==
    page_sections[i] = "pl" /\ DetectColumnCount(pages[i].years) = 4

\* The lines of metric m on income-statement pages, as <<page, line>>.
IncomeMentions(m) ==
    UNION {{<<i, j>> : j \in {j \in 1..Len(pages[i].lines) : pages[i].lines[j].label = m}} :
              i \in {i \in 1..Len(pages) : page_sections[i] = "pl"}}

\* The line holds the four period values [quarter-current, quarter-prior,
\* YTD-current, YTD-prior] on a 4-column income-statement page.
PeriodOrdered(ij) ==
    LET toks == pages[ij[1]].lines[ij[2]].toks IN
    /\ FourColumnIncomePage(ij[1])
    /\ Len(toks) = 4
    /\ \A k \in 1..4 : toks[k].mag >= 100

YtdCurrent(ij) == ParseNumber(pages[ij[1]].lines[ij[2]].toks[3])

\* C9: an income metric whose label appears on 4-column income-statement
\* pages with the period values in the order [quarter-current, quarter-prior,
\* YTD-current, YTD-prior] has the YTD-current figure in the final metrics
\* map, also when a page exposes a table row for it.
C9_YtdCurrentInMetrics ==
    pc = "resolved" =>
        \A m \in ParseMetrics \cap INCOME_LABELS :
            (/\ IncomeMentions(m) # {}
             /\ \A ij \in IncomeMentions(m) : PeriodOrdered(ij)
             /\ Cardinality({YtdCurrent(ij) : ij \in IncomeMentions(m)}) = 1)
                => /\ m \in DOMAIN metrics
                   /\ \A ij \in IncomeMentions(m) : metrics[m] = YtdCurrent(ij)

Scoped(metric, sec) ==
    \/ metric \in INCOME_LABELS /\ sec = "pl"
    \/ metric \in BALANCE_LABELS /\ sec = "bs"

-----------------------------------------------------------------------------
(* parse_pdf_financials on documents with note pages: the passes above on    *)
(* statement pages that carry the headline figures and on pages of the notes *)
(* to the accounts.                                                          *)

NoteLine(start, words, text, toks) ==
    [start |-> start, words |-> words, text |-> text, toks |-> toks]

\* "20. Investment income"
Heading20 == NoteLine("N.", {"note20"}, TRUE, <<Plain(20)>>)

\* "21. Dividend income"
End20 == NoteLine("N.", {"end20"}, TRUE, <<Plain(21)>>)

\* "8. Financial assets measured at fair value through other comprehensive income"
Heading8 == NoteLine("N.", {"note8", "fvtoci"}, TRUE, <<Plain(8)>>)

\* "9. Investments at amortised cost"
End8 == NoteLine("N.", {"end8", "amortised cost"}, TRUE, <<Plain(9)>>)

\* "2025 2024"
YearHeader == NoteLine("", {}, FALSE, <<Plain(2025), Plain(2024)>>)

\* "AED'000 AED'000"
UnitLine == NoteLine("AED", {"aed"}, TRUE, <<Plain(0), Plain(0)>>)

\* Literal scenario C:
\*   "Investment income from investment deposits 192,248 176,000"
\*   "Investment income from investments at amortised cost 14,858 12,000"
\*   "Investment income from other financial assets measured at"
\*   "FVTOCI 14,133 11,644"
\*   "221,239 199,644"
Note20C ==
    <<Heading20, YearHeader, UnitLine,
      NoteLine("", {"from deposits"}, TRUE, <<Plain(192248), Plain(176000)>>),
      NoteLine("", {"amortised cost"}, TRUE, <<Plain(14858), Plain(12000)>>),
      NoteLine("", {}, TRUE, << >>),
      NoteLine("", {"fvtoci"}, TRUE, <<Plain(14133), Plain(11644)>>),
      NoteLine("", {}, FALSE, <<Plain(221239), Plain(199644)>>),
      End20>>

\* A note that states its total and no sub-metric line:
\*   "Return on investments"  /  "55,461 40,000"
Note20TotalOnly ==
    <<Heading20, YearHeader, UnitLine,
      NoteLine("", {}, TRUE, <<Plain(2025), Plain(2024)>>),
      NoteLine("", {}, FALSE, <<Plain(55461), Plain(40000)>>)>>

\* A note of a loss: "Investment income from deposits (192,248) 176,000"
Note20Loss ==
    <<Heading20,
      NoteLine("", {"from deposits"}, TRUE,
               <<[form |-> "paren", mag |-> 192248], Plain(176000)>>),
      End20>>

\* A note whose figures are rounded: the deposits line and the total line are
\* off the headline 221,239 by less than the tolerance.
\*   "Investment income from deposits 221,000 176,000"  /  "221,240 199,644"
Note20Rounded ==
    <<Heading20,
      NoteLine("", {"from deposits"}, TRUE, <<Plain(221000), Plain(176000)>>),
      NoteLine("", {}, FALSE, <<Plain(221240), Plain(199644)>>),
      End20>>

\* "Investment in equity securities 1,118,400 1,050,000" / "Managed funds 25,127 24,000"
\* "Investment in sukuk 326,762 337,836" / "1,470,289 1,411,836"
Note8Full ==
    <<Heading8, YearHeader,
      NoteLine("", {"equity securities"}, TRUE, <<Plain(1118400), Plain(1050000)>>),
      NoteLine("", {"managed fund"}, TRUE, <<Plain(25127), Plain(24000)>>),
      NoteLine("", {"investment in sukuk"}, TRUE, <<Plain(326762), Plain(337836)>>),
      NoteLine("", {}, FALSE, <<Plain(1470289), Plain(1411836)>>),
      End8>>

\* The same note without the sukuk line and without a total line.
Note8Partial ==
    <<Heading8,
      NoteLine("", {"equity securities"}, TRUE, <<Plain(1118400), Plain(1050000)>>),
      NoteLine("", {"managed fund"}, TRUE, <<Plain(25127), Plain(24000)>>),
      End8>>

\* "Investment income 221,239 176,000" and the like
Headline(n, prior) == [label |-> "investment_income", toks |-> <<Plain(n), Plain(prior)>>]

\* "Financial assets measured at fair value through other comprehensive income 826 900"
BalanceLineSmall == [label |-> "fvtoci", toks |-> <<Plain(826), Plain(900)>>]

StatementPage(sec, ln, wording) ==
    [head |-> {sec}, years |-> Years2, lines |-> <<ln>>, tables |-> << >>,
     wording |-> wording, notes |-> << >>]

NotesPage(notes) ==
    [head |-> {}, years |-> << >>, lines |-> << >>, tables |-> << >>,
     wording |-> {}, notes |-> notes]

NotePageUniverse ==
    { StatementPage("pl", Headline(221239, 176000), {"year ended"}),
      StatementPage("pl", Headline(300000, 176000), {"nine-month", "three-month"}),
      StatementPage("pl", Headline(0, 0), {}),
      StatementPage("pl", Headline(221239, 176000), {"six-month", "three-month"}),
      StatementPage("bs", BalanceLineX, {"three-month"}),
      StatementPage("bs", BalanceLineX, {}),
      StatementPage("bs", BalanceLineSmall, {}),
      NotesPage(Note20C), NotesPage(Note20TotalOnly), NotesPage(Note20Loss),
      NotesPage(Note20Rounded),
      NotesPage(Note8Full), NotesPage(Note8Partial) }

NextNotes ==
    \/ \E page \in NotePageUniverse : ReadPage(page)
    \/ NextPasses

SpecNotes == InitParse /\ [][NextNotes]_vars

Returned == pc = "returned"

\* The tolerance of the reconciliation: max(0.5% of |headline|, 2).
OverTolerance(diff, h) == 200 * diff > Abs(h) /\ diff > 2

\* The sub-metrics the note breakdown holds, and their sum.
Available == {k \in Range(NOTE20_KEYS) : note20[k] # None}

SubMetricSum ==
    LET v(k) == IF k \in Available THEN note20[k][1] ELSE 0 IN
    v("investment_income_deposits") + v("investment_income_amortised_cost")
    + v("investment_income_fvtoci")

WarningsOf(check) == {i \in 1..Len(warnings) : warnings[i].check = check}

\* The comparison fails: the compared value is off the headline by more than
\* the tolerance.
Fails(compared, h) == OverTolerance(Abs(h - compared), h)

Warned(check, compared, h) ==
    /\ Cardinality(WarningsOf(check)) = 1
    /\ \A i \in WarningsOf(check) : warnings[i].delta = Abs(h - compared)

\* C11: in a returned result with a resolved headline investment_income, each
\* of the two comparisons, (a) the note-stated total against the headline and
\* (b) the sum of the available sub-metrics against the headline, that is off
\* by more than max(0.5% of |headline|, 2) has one warning in the warnings
\* list, and the warning states the difference.
C11_WarningPerFailingComparison ==
    (Returned /\ "investment_income" \in DOMAIN metrics) =>
        LET h == metrics["investment_income"] IN
        /\ (note20.investment_income_total # None
              /\ Fails(note20.investment_income_total[1], h))
            => Warned("note_total", note20.investment_income_total[1], h)
        /\ (Available # {} /\ Fails(SubMetricSum, h))
            => Warned("breakdown_sum", SubMetricSum, h)

\* C12: no false reconciliation warning.  In a returned result with a resolved
\* headline, when the note-stated total (if present) and the sum of the
\* available sub-metrics (if any is present) are each within
\* max(0.5% of |headline|, 2) of the headline, the warnings list is empty; and
\* no result holds more than two warnings.
C12_NoFalseWarning ==
    Returned =>
        /\ Len(warnings) <= 2
        /\ ("investment_income" \in DOMAIN metrics
              /\ (note20.investment_income_total # None
                    => ~Fails(note20.investment_income_total[1],
                              metrics["investment_income"]))
              /\ (Available # {} => ~Fails(SubMetricSum, metrics["investment_income"])))
            => warnings = << >>

\* Rounded figures: total and sub-metric sum differ from the headline, both
\* within the tolerance, and nothing is warned.
C12_Witness ==
    /\ Returned
    /\ "investment_income" \in DOMAIN metrics
    /\ metrics["investment_income"] = 221239
    /\ note20.investment_income_total = Some(221240)
    /\ Available = {"investment_income_deposits"}
    /\ SubMetricSum = 221000
    /\ warnings = << >>

\* Literal scenario C: 192248 + 14858 + 14133 against headline 221239.
C12_WitnessScenarioC ==
    /\ Returned
    /\ "investment_income" \in DOMAIN metrics
    /\ metrics["investment_income"] = 221239
    /\ Available = Range(NOTE20_KEYS)
    /\ SubMetricSum = 221239
    /\ warnings = << >>

\* C13 as stated: whenever the three sub-metrics are absent from the note
\* breakdown the result holds no warning, whatever the headline and the rest
\* of the text.
C13_NoSubMetricsNoWarnings ==
    (Returned /\ Available = {}) => warnings = << >>

\* C13: with the three sub-metrics absent, comparison (b) never warns, so the
\* only warning a result can hold is that of the note-stated total; with the
\* total absent as well (no note block, or no total line in it) the warnings
\* list is empty for every headline.
C13_NothingToCheckNoWarnings ==
    (Returned /\ Available = {}) =>
        /\ WarningsOf("breakdown_sum") = {}
        /\ Len(warnings) <= 1
        /\ note20.investment_income_total = None => warnings = << >>

\* A resolved headline, and a text without an investment-income note.
C13_Witness ==
    /\ Returned
    /\ "investment_income" \in DOMAIN metrics
    /\ metrics["investment_income"] = 221239
    /\ Len(pages) = 2
    /\ note20 = EmptyNote20
    /\ warnings = << >>

\* The metrics that resolution set from candidates.
Resolved == {best[i].metric : i \in 1..Len(best)}

\* The names that only the notes give.
NoteOnly == Range(NOTE20_KEYS) \cup Range(NOTE8_KEYS)

\* C14: in a returned result every metric that primary-statement resolution
\* set still has the value of its surviving candidate, for every such value;
\* the other keys of the metrics map are note-only sub-metric names, the
\* period, or fvtoci filled from the note when resolution left it absent.
C14_ResolvedNeverReplaced ==
    Returned =>
        /\ \A i \in 1..Len(best) :
              /\ best[i].metric \in DOMAIN metrics
              /\ metrics[best[i].metric] = best[i].value
        /\ DOMAIN metrics \subseteq
              Resolved \cup NoteOnly \cup {"period_months", "fvtoci"}

AuditOf(m) == {i \in 1..Len(audit) : audit[i].metric_name = m}

AuditFields == {"metric_name", "value", "method", "page", "snippet"}

\* C15: in a returned result the audit list holds exactly one entry for each
\* metric resolved from candidates, no metric name occurs in two entries, and
\* every entry carries metric_name, value, method, page and snippet.
C15_OneAuditEntryPerMetric ==
    Returned =>
        /\ \A m \in Resolved : Cardinality(AuditOf(m)) = 1
        /\ \A i, j \in 1..Len(audit) :
              audit[i].metric_name = audit[j].metric_name => i = j
        /\ \A i \in 1..Len(audit) : AuditFields \subseteq DOMAIN audit[i]

\* The keyword of each note sub-metric.
KeyWord(k) ==
    CASE k = "investment_income_deposits" -> "from deposits"
      [] k = "investment_income_amortised_cost" -> "amortised cost"
      [] k = "investment_income_fvtoci" -> "fvtoci"
      [] k = "fvtoci_equity" -> "equity securities"
      [] k = "fvtoci_funds" -> "managed fund"
      [] k = "fvtoci_sukuk" -> "investment in sukuk"

\* No line of the document mentions the sub-metric.
Undisclosed(k) ==
    \A i \in 1..Len(FullText(pages)) : KeyWord(k) \notin FullText(pages)[i].words

NoteValue(k) == IF k \in Range(NOTE20_KEYS) THEN note20[k] ELSE note8[k]

\* C16: in a returned result a note sub-metric that no line of the document
\* discloses is None in the note breakdown; a sub-metric that is None in the
\* breakdown is not a key of the metrics map; and no sub-metric is 0 in the
\* breakdown or in the metrics map.
C16_UndisclosedStaysAbsent ==
    Returned =>
        \A k \in NoteOnly :
            /\ Undisclosed(k) => NoteValue(k) = None
            /\ NoteValue(k) = None => k \notin DOMAIN metrics
            /\ NoteValue(k) # Some(0)
            /\ k \in DOMAIN metrics => metrics[k] # 0

\* A note that discloses equity securities and managed funds and no sukuk.
C16_Witness ==
    /\ Returned
    /\ Undisclosed("fvtoci_sukuk")
    /\ ~Undisclosed("fvtoci_equity")
    /\ note8.fvtoci_sukuk = None
    /\ note8.fvtoci_equity = Some(1118400)
    /\ "fvtoci_sukuk" \notin DOMAIN metrics
    /\ "fvtoci_equity" \in DOMAIN metrics

\* C17: a document that yields no pages does not get a result object: the
\* parse never returns on it.
C17_NoPagesNoResult == Returned => pages # << >>

-----------------------------------------------------------------------------
(* 9) Portfolio helpers, called on a metrics map.                            *)

RECURSIVE SumSeq(_)
SumSeq(vals) == IF vals = << >> THEN 0 ELSE Head(vals) + SumSeq(Tail(vals))

\* values = [v for v in components if isinstance(v, (int, float))]
PresentValues(components) ==
    LET kept == SelectSeq(components, LAMBDA c : c # None) IN
    [i \in 1..Len(kept) |-> kept[i][1]]

ComputePortfolioZeroWhenEmpty(components) == Some(SumSeq(PresentValues(components)))

\* compute_portfolio of parsers/common.py
ComputePortfolio(components) ==
    IF PresentValues(components) = << >> THEN None
    ELSE Some(SumSeq(PresentValues(components)))

\* compute_portfolio_from_metrics
ComputePortfolioFromMetrics(d) ==
    ComputePortfolio(<<Get(d, "investment_deposits"),
                       Get(d, "investments_amortised_cost"),
                       Get(d, "fvtoci")>>)

\* compute_ear_portfolio
ComputeEarPortfolio(d) ==
    LET fvtoci_debt == OrZero(Get(d, "fvtoci_sukuk")) IN
    ComputePortfolio(<<Get(d, "investment_deposits"),
                       Get(d, "investments_amortised_cost"),
                       IF fvtoci_debt > 0 THEN Some(fvtoci_debt) ELSE None>>)

PortfolioKeys ==
    {"investment_deposits", "investments_amortised_cost", "fvtoci",
     "fvtoci_equity", "fvtoci_funds", "fvtoci_sukuk"}

PortfolioValues == {-300, 100, 200, 400}

\* The balances of the annual report: 1,118,400 + 25,127 + 326,762 = 1,470,289
AnnualMetrics ==
    [k \in PortfolioKeys |->
        CASE k = "investment_deposits" -> 4111622
          [] k = "investments_amortised_cost" -> 470186
          [] k = "fvtoci" -> 1470289
          [] k = "fvtoci_equity" -> 1118400
          [] k = "fvtoci_funds" -> 25127
          [] k = "fvtoci_sukuk" -> 326762]

PortfolioUniverse ==
    UNION {[keys -> PortfolioValues] : keys \in SUBSET PortfolioKeys}
    \cup {AnnualMetrics}

InitPortfolio ==
    /\ pc = "total_portfolio"
    /\ metrics \in PortfolioUniverse
    /\ pages = << >> /\ page_sections = << >> /\ page_idx = 0 /\ audit = << >>
    /\ candidates = << >>
    /\ best = << >>
    /\ lineIdle
    /\ noteIdle
    /\ portfolioIdle
    /\ numberIdle
    /\ tableIdle
    /\ classifyIdle
    /\ blockIdle

\* total = compute_portfolio_from_metrics(metrics)
ComputeTotal ==
    /\ pc = "total_portfolio"
    /\ total_portfolio' = ComputePortfolioFromMetrics(metrics)
    /\ pc' = "ear_portfolio"
    /\ UNCHANGED <<ear_portfolio, parseVars, noteVars, resolveVars, lineVars, numberVars, tableVars, classifyVars, blockVars>>

\* ear = compute_ear_portfolio(metrics)
ComputeEar ==
    /\ pc = "ear_portfolio"
    /\ ear_portfolio' = ComputeEarPortfolio(metrics)
    /\ pc' = "portfolio_done"
    /\ UNCHANGED <<total_portfolio, parseVars, noteVars, resolveVars, lineVars, numberVars, tableVars, classifyVars, blockVars>>

NextPortfolio == ComputeTotal \/ ComputeEar

SpecPortfolio == InitPortfolio /\ [][NextPortfolio]_vars

\* The value of a key of the metrics map, 0 for an absent key.
Amount(k) == IF k \in DOMAIN metrics THEN metrics[k] ELSE 0

TotalKeys == {"investment_deposits", "investments_amortised_cost", "fvtoci"}

EarKeys == {"investment_deposits", "investments_amortised_cost", "fvtoci_sukuk"}

\* C19: compute_portfolio_from_metrics returns the sum of those of
\* investment_deposits, investments_amortised_cost and fvtoci that are keys of
\* the metrics map, and None when none of the three is; it returns on every
\* metrics map.
C19_TotalIsSumOfPresent ==
    pc \in {"ear_portfolio", "portfolio_done"} =>
        IF TotalKeys \cap DOMAIN metrics = {} THEN total_portfolio = None
        ELSE total_portfolio =
                Some(Amount("investment_deposits") + Amount("investments_amortised_cost")
                     + Amount("fvtoci"))

\* The sub-components are keys and the total leaves them out: deposits and
\* fvtoci present, amortised cost absent.
C19_Witness ==
    /\ pc = "portfolio_done"
    /\ DOMAIN metrics = {"investment_deposits", "fvtoci", "fvtoci_equity", "fvtoci_sukuk"}
    /\ metrics["investment_deposits"] = 100
    /\ metrics["fvtoci"] = 400
    /\ total_portfolio = Some(500)

\* No key of the three: the total is None.
C19_WitnessAbsent ==
    /\ pc = "portfolio_done"
    /\ DOMAIN metrics = {"fvtoci_equity", "fvtoci_funds", "fvtoci_sukuk"}
    /\ total_portfolio = None

\* C20: compute_ear_portfolio returns the sum of those of investment_deposits,
\* investments_amortised_cost and fvtoci_sukuk that are keys of the metrics
\* map (None when none is), fvtoci_equity and fvtoci_funds never counting; so
\* with all six keys present and fvtoci = equity + funds + sukuk, the total
\* portfolio less the EaR portfolio is equity + funds.
C20_EarIsSumOfPresent ==
    pc = "portfolio_done" =>
        /\ IF EarKeys \cap DOMAIN metrics = {} THEN ear_portfolio = None
           ELSE ear_portfolio =
                   Some(Amount("investment_deposits")
                        + Amount("investments_amortised_cost") + Amount("fvtoci_sukuk"))
        /\ (/\ DOMAIN metrics = PortfolioKeys
            /\ metrics["fvtoci"] = metrics["fvtoci_equity"] + metrics["fvtoci_funds"]
                                   + metrics["fvtoci_sukuk"])
            => total_portfolio[1] - ear_portfolio[1]
                  = metrics["fvtoci_equity"] + metrics["fvtoci_funds"]

-----------------------------------------------------------------------------
(* parse_number on the values a cell or a token can be.                      *)

MaxChars == 4

\* The characters of the enumerated tokens.
TokenChars == {"1", ",", " ", "(", ")", "-", "endash", ".", "n", "a", "/"}

\* Tokens written out: the ones of test_parse_number_variants, upper-case
\* n/a spellings, a parenthesised figure with a footnote mark and a long dash.
LiteralTokens ==
    { <<"1", ",", "2", "3", "4">>,
      <<"(", "1", ",", "2", "3", "4", ")">>,
      <<"1", " ", "2", "3", "4">>,
      <<"acirc", "euro", "ldquo">>,
      <<"N", "/", "A">>, <<"N", "A">>, <<"emdash">>,
      <<"-", "(", "1", ",", "2", "3", "4", ")">>,
      <<"(", "1", "2", ".", "5", ")">>,
      <<"-", "1", "2", ".", "5", "0">> }

NumberUniverse ==
    {NoValue} \cup {NumValue(n) : n \in {-5, 0, 1234}}
    \cup {TextValue(c) : c \in UNION {[1..n -> TokenChars] : n \in 0..MaxChars}}
    \cup {TextValue(c) : c \in LiteralTokens}

InitNumber ==
    /\ pc = "parse_number"
    /\ raw \in NumberUniverse
    /\ number = None
    /\ candidates = << >>
    /\ best = << >>
    /\ lineIdle
    /\ parseIdle
    /\ noteIdle
    /\ portfolioIdle
    /\ tableIdle
    /\ classifyIdle
    /\ blockIdle

\* number = parse_number(value)
ParseNumberCall ==
    /\ pc = "parse_number"
    /\ number' = ParseNumberValue(raw)
    /\ pc' = IF ParseNumberValue(raw) = ValueError THEN "raised" ELSE "number_done"
    /\ UNCHANGED <<raw, resolveVars, lineVars, parseVars, noteVars, portfolioVars, tableVars, classifyVars, blockVars>>

NextNumber == ParseNumberCall

SpecNumber == InitNumber /\ [][NextNumber]_vars

Parsed == pc \in {"number_done", "raised"}

\* The token without the blanks at its ends.
Trimmed == Strip(raw.chars)

HasDigit(s) == \E i \in 1..Len(s) : s[i] \in Digits

\* The digits of s in order.
DigitsOf(s) == SelectSeq(s, LAMBDA c : c \in Digits)

\* s is digits with thousands separators and inner spaces, a digit first
\* and a digit last.
SeparatedDigits(s) ==
    /\ s # << >>
    /\ \A i \in 1..Len(s) : s[i] \in Digits \cup {",", " "}
    /\ Head(s) \in Digits
    /\ s[Len(s)] \in Digits

\* C21: parse_number returns on every value, None or a number, and raises on
\* none; it returns None for a missing value, for an empty or blank token,
\* for a dash token, for n/a in any case and for a token without a digit; a
\* token of digits with thousands separators and inner spaces gives the
\* number its digits write; and the same between parentheses gives the
\* negative of that number.
C21_ParseNumberTotal ==
    Parsed =>
        /\ pc = "number_done"
        /\ number = None \/ DOMAIN number[1] = {"neg", "whole", "frac"}
        /\ raw.kind = "none" => number = None
        /\ raw.kind = "text" =>
              /\ Trimmed = << >> => number = None
              /\ Trimmed \in {<<"-">>, <<"endash">>, <<"emdash">>} => number = None
              /\ Lower(Trimmed) \in {<<"n", "a">>, <<"n", "/", "a">>} => number = None
              /\ ~HasDigit(raw.chars) => number = None
              /\ SeparatedDigits(Trimmed)
                    => number = Float(FALSE, WholeOf(DigitsOf(Trimmed)), << >>)
              /\ (/\ Len(Trimmed) >= 3
                  /\ Head(Trimmed) = "("
                  /\ Trimmed[Len(Trimmed)] = ")"
                  /\ SeparatedDigits(SubSeq(Trimmed, 2, Len(Trimmed) - 1)))
                    => number = Float(TRUE, WholeOf(DigitsOf(Trimmed)), << >>)

\* "(1,234)" gives -1234
C21_Witness ==
    /\ Parsed
    /\ raw = TextValue(<<"(", "1", ",", "2", "3", "4", ")">>)
    /\ number = Float(TRUE, 1234, << >>)

\* "1 1" gives 11; a blank token gives None
C21_WitnessSpaces ==
    /\ Parsed
    /\ raw = TextValue(<<"1", " ", "1">>)
    /\ number = Float(FALSE, 11, << >>)

-----------------------------------------------------------------------------
(* The page_table extractor on one table of a page.                               *)

MaxCols == 3

TableYears == {0, 2024, 2025}

TableCells ==
    {EmptyCell, TextCell("none"), NumCell(Plain(99)), NumCell(Plain(250)),
     NumCell([form |-> "paren", mag |-> 300])}

LabelCells ==
    {EmptyCell, TextCell("none"), TextCell("investment_income"), TextCell("fvtoci")}

\* Rows of a label cell and value cells, up to MaxCols cells in all; the
\* empty row; and a row whose label stands in the second column.
RowUniverse ==
    { << >>, <<EmptyCell, TextCell("fvtoci"), NumCell(Plain(250))>> }
    \cup UNION {{<<l>> \o v : l \in LabelCells, v \in [1..n -> TableCells]} :
                   n \in 0..(MaxCols - 1)}

\* A header row of MaxCols cells with one data row, a header row alone, and
\* the four-column table of an interim statement with a second row.
TableUniverse ==
    {[header |-> h, rows |-> <<r>>] : h \in [1..MaxCols -> TableYears], r \in RowUniverse}
    \cup {[header |-> h, rows |-> << >>] : h \in [1..MaxCols -> TableYears]}
    \cup {[header |-> TableA.header,
           rows |-> TableA.rows \o << <<TextCell("investment_income"), EmptyCell,
                                       NumCell(Plain(55461)), NumCell(Plain(165348)),
                                       NumCell(Plain(120000))>> >>]}

InitTable ==
    /\ pc = "extract_table"
    /\ page_table \in TableUniverse
    /\ section \in {"pl", "bs", "oci", NoSection}
    /\ header = << >> /\ col_count = 0 /\ line = NoSnippet
    /\ values = << >> /\ value = None
    /\ candidates = << >>
    /\ best = << >>
    /\ parseIdle
    /\ noteIdle
    /\ portfolioIdle
    /\ numberIdle
    /\ classifyIdle
    /\ blockIdle

\* candidates.extend(_extract_table_candidates(table, page_number, section))
ExtractTable ==
    /\ pc = "extract_table"
    /\ candidates' = candidates \o ExtractTableCandidates(page_table, 1, section)
    /\ pc' = "table_done"
    /\ UNCHANGED <<best, lineVars, parseVars, noteVars, portfolioVars, numberVars,
                   tableVars, classifyVars, blockVars>>

NextTable == ExtractTable

SpecTable == InitTable /\ [][NextTable]_vars

\* The keywords in scope on a page of the section.
ScopedLabels ==
    CASE section = "pl" -> Range(INCOME_ORDER)
      [] section = "bs" -> Range(BALANCE_ORDER)
      [] OTHER -> {}

\* The first cell of the row that is not empty is a text a scoped keyword
\* starts.
Matching(row) ==
    \E i \in 1..Len(row) :
        /\ row[i].kind = "text"
        /\ row[i].label \in ScopedLabels
        /\ \A j \in 1..(i - 1) : row[j].kind = "empty"

\* The header column that carries the highest year (the leftmost of them),
\* 0 when the header row holds no year.
HighestYearColumn ==
    LET yearCols == {i \in 1..Len(page_table.header) : page_table.header[i] # 0} IN
    IF yearCols = {} THEN 0
    ELSE CHOOSE i \in yearCols :
            \A j \in yearCols : page_table.header[j] < page_table.header[i]
                                \/ (page_table.header[j] = page_table.header[i] /\ i <= j)

Parses(cell) == cell.kind = "num"

\* The cells a candidate of the row can take its value from, in the order of
\* preference: the cell under the highest year, then the cells behind the
\* first column of magnitude 100 or more.
ExpectedValue(row) ==
    LET y == HighestYearColumn
        large == {i \in 2..Len(row) : Parses(row[i]) /\ row[i].tok.mag >= 100}
    IN IF y # 0 /\ y <= Len(row) /\ Parses(row[y]) THEN Some(ParseNumber(row[y].tok))
       ELSE IF large # {}
            THEN Some(ParseNumber(row[CHOOSE i \in large : \A j \in large : i <= j].tok))
       ELSE None

\* The rows of the table that are due a candidate, in order.
DueRows ==
    SelectSeq(page_table.rows, LAMBDA row : Matching(row) /\ ExpectedValue(row) # None)

\* C22: the table extractor emits one candidate for each row whose label cell
\* matches a keyword of the page's section and that holds a value, and none
\* for other rows: the value is the cell under the header column with the
\* highest year when that cell parses to a number, otherwise the first cell
\* behind the first column of magnitude 100 or more; the method is "table".
C22_TableValue ==
    pc = "table_done" =>
        /\ Len(candidates) = Len(DueRows)
        /\ \A k \in 1..Len(candidates) :
              /\ candidates[k].value = ExpectedValue(DueRows[k])[1]
              /\ candidates[k].method = "table"

\* The cell under the highest year is empty and the value comes from the
\* first large cell.
C22_Witness ==
    /\ pc = "table_done"
    /\ section = "pl"
    /\ page_table.header = <<0, 2024, 2025>>
    /\ page_table.rows = << <<TextCell("investment_income"), NumCell(Plain(250)), EmptyCell>> >>
    /\ Len(candidates) = 1
    /\ candidates[1].value = 250

\* The cell under the highest year is below 100 and is taken all the same.
C22_WitnessYearCell ==
    /\ pc = "table_done"
    /\ section = "bs"
    /\ page_table.header = <<0, 2025, 2024>>
    /\ page_table.rows = << <<TextCell("fvtoci"), NumCell(Plain(99)), NumCell(Plain(250))>> >>
    /\ Len(candidates) = 1
    /\ candidates[1].value = 99

-----------------------------------------------------------------------------
(* Column layout detection (SpecLine).                                       *)

\* The leading lines of the page that the detection reads.
LeadingLines == {i \in 1..Len(header) : i <= 15}

\* C23: the detected layout is 4 whenever one of the first 15 lines of the
\* page holds four or more year tokens, 2 when one of them holds exactly two
\* and none holds four or more, and 0 otherwise.
C23_FourColumnsFirst ==
    pc \in {"extract_numbers", "pick_value", "append", "line_done"} =>
        col_count =
            IF \E i \in LeadingLines : Len(header[i]) >= 4 THEN 4
            ELSE IF \E i \in LeadingLines : Len(header[i]) = 2 THEN 2
            ELSE 0

-----------------------------------------------------------------------------
(* _classify_page on the text of a page (SpecClassify).                      *)
(*                                                                           *)
(* The text is a sequence of pieces [sec, upper, len]: a piece with a        *)
(* section is one occurrence of the shortest heading phrase of that section  *)
(* ("consolidated statement of ..."), written in capitals when upper holds;  *)
(* a piece with no section is len characters of other text.                  *)

\* text[:1500]
HeadLimit == 1500

\* len(pattern) of the shortest pattern of each section in SECTION_PATTERNS
PhraseLen(sec) ==
    CASE sec = "pl" -> 32
      [] sec = "bs" -> 44
      [] sec = "oci" -> 46
      [] sec = "cashflow" -> 36

OtherText(n) == [sec |-> NoSection, upper |-> FALSE, len |-> n]

Phrase(sec, upper) == [sec |-> sec, upper |-> upper, len |-> PhraseLen(sec)]

\* text[:limit]: a piece that crosses the limit is cut, and a cut phrase is
\* no phrase any more.
RECURSIVE CutText(_, _)
CutText(text, limit) ==
    IF text = << >> \/ limit <= 0 THEN << >>
    ELSE IF Head(text).len <= limit
         THEN <<Head(text)>> \o CutText(Tail(text), limit - Head(text).len)
         ELSE <<OtherText(limit)>>

\* The text as it is written.
KeepCase(text) == text

\* .lower()
LowerText(text) == [i \in 1..Len(text) |-> [text[i] EXCEPT !.upper = FALSE]]

\* any(pat in lowered for pat in SECTION_PATTERNS[sec]): the patterns are
\* written in small letters
PatternIn(sec, lowered) ==
    \E i \in 1..Len(lowered) : lowered[i].sec = sec /\ ~lowered[i].upper

\* The sections one of whose patterns is in text[:1500].lower()
HeadSections(text) ==
    LET lowered == LowerText(CutText(text, HeadLimit)) IN
    {SECTION_ORDER[i] : i \in {j \in 1..Len(SECTION_ORDER) :
                                   PatternIn(SECTION_ORDER[j], lowered)}}

\* _classify_page(text)
ClassifyText(text) == ClassifyPage(HeadSections(text))

MaxPieces == 3

TextPieces ==
    {OtherText(100), OtherText(1460), OtherText(1480)}
    \cup {Phrase(sec, upper) :
              sec \in {"pl", "bs", "oci", "cashflow"}, upper \in BOOLEAN}

TextUniverse == UNION {[1..n -> TextPieces] : n \in 0..MaxPieces}

InitClassify ==
    /\ pc = "classify"
    /\ page_text \in TextUniverse
    /\ page_tag = NoSection
    /\ candidates = << >>
    /\ best = << >>
    /\ lineIdle
    /\ parseIdle
    /\ noteIdle
    /\ portfolioIdle
    /\ numberIdle
    /\ tableIdle
    /\ blockIdle

ClassifyCall ==
    /\ pc = "classify"
    /\ page_tag' = ClassifyText(page_text)
    /\ pc' = "classified"
    /\ UNCHANGED <<page_text, resolveVars, lineVars, parseVars, noteVars, portfolioVars,
                   numberVars, tableVars, blockVars>>

NextClassify == ClassifyCall

SpecClassify == InitClassify /\ [][NextClassify]_vars

\* Number of characters of the text up to and including piece i.
RECURSIVE EndOf(_, _)
EndOf(text, i) == IF i = 0 THEN 0 ELSE EndOf(text, i - 1) + text[i].len

\* The sections a heading phrase of which lies, in any case, within the first
\* 1500 characters of the text.
Occurring(text) ==
    {text[i].sec : i \in {j \in 1..Len(text) :
                              text[j].sec # NoSection /\ EndOf(text, j) <= 1500}}

\* The pieces of the text that start behind the first 1500 characters.
Beyond(text) == {i \in 1..Len(text) : EndOf(text, i - 1) >= 1500}

\* C24: the tag of a page is none exactly when no heading phrase of any
\* section occurs, in whatever case, within the first 1500 characters of its
\* text; otherwise it is a section a heading phrase of which occurs there;
\* and replacing text behind the first 1500 characters leaves the tag as it is.
C24_ClassifyByHead ==
    pc = "classified" =>
        /\ page_tag = NoSection <=> Occurring(page_text) = {}
        /\ page_tag # NoSection => page_tag \in Occurring(page_text)
        /\ \A i \in Beyond(page_text) : \A piece \in TextPieces :
               ClassifyText([page_text EXCEPT ![i] = piece]) = page_tag

\* A heading in capitals inside the first 1500 characters decides the tag
\* although the heading of another section follows behind them.
C24_Witness ==
    /\ pc = "classified"
    /\ page_text = <<OtherText(1460), Phrase("cashflow", TRUE), Phrase("pl", FALSE)>>
    /\ page_tag = "cashflow"

\* A heading that crosses the 1500th character is not found.
C24_WitnessCut ==
    /\ pc = "classified"
    /\ page_text = <<OtherText(1460), Phrase("bs", FALSE)>>
    /\ page_tag = NoSection

-----------------------------------------------------------------------------
(* The note extractors on the text of a note (SpecBlock): the heading of     *)
(* the note, up to MaxLines lines, the heading of the next note.             *)

MaxLines == 3

\* "Investment income from other financial assets measured at"
LabelOnly == NoteLine("", {}, TRUE, << >>)

\* "AED thousand"
UnitWords == NoteLine("AED", {"aed"}, TRUE, << >>)

\* "2025 2024 2025 2024", the columns of an interim period
YearHeader4 ==
    NoteLine("", {}, FALSE, <<Plain(2025), Plain(2024), Plain(2025), Plain(2024)>>)

BlockLines ==
    { BlankLine, LabelOnly, UnitWords, UnitLine, YearHeader, YearHeader4,
      \* "Investment income from deposits 192,248 176,000"
      NoteLine("", {"from deposits"}, TRUE, <<Plain(192248), Plain(176000)>>),
      \* "Investment income from investments at amortised cost 14,858 12,000"
      NoteLine("", {"amortised cost"}, TRUE, <<Plain(14858), Plain(12000)>>),
      \* "Income from deposits and investments at amortised cost 207,106 188,000"
      NoteLine("", {"from deposits", "amortised cost"}, TRUE,
               <<Plain(207106), Plain(188000)>>),
      \* "FVTOCI at 31 December 2025 14,133"
      NoteLine("", {"fvtoci"}, TRUE, <<Plain(31), Plain(2025), Plain(14133)>>),
      \* "Income from deposits rose in 2025 by 50"
      NoteLine("", {"from deposits"}, TRUE, <<Plain(2025), Plain(50)>>),
      \* "221,239 199,644"
      NoteLine("", {}, FALSE, <<Plain(221239), Plain(199644)>>),
      \* "1,470,289 1,411,836"
      NoteLine("", {}, FALSE, <<Plain(1470289), Plain(1411836)>>),
      \* "Investment in equity securities 1,118,400 1,050,000"
      NoteLine("", {"equity securities"}, TRUE, <<Plain(1118400), Plain(1050000)>>),
      \* "Managed funds 25,127 24,000"
      NoteLine("", {"managed fund"}, TRUE, <<Plain(25127), Plain(24000)>>),
      \* "Equity securities and managed funds of 1,143,527"
      NoteLine("", {"equity securities", "managed fund"}, TRUE, <<Plain(1143527)>>) }

\* The heading of a note and the heading that ends it.
NoteHeadings == {<<Heading20, End20>>, <<Heading8, End8>>}

InitBlock ==
    /\ pc = "merge_lines"
    /\ \E n \in 0..MaxLines : \E body \in [1..n -> BlockLines] :
           \E headings \in NoteHeadings :
               note_text = <<headings[1]>> \o body \o <<headings[2]>>
    /\ note_lines = << >>
    /\ candidates = << >>
    /\ best = << >>
    /\ lineIdle
    /\ parseIdle
    /\ noteIdle
    /\ portfolioIdle
    /\ numberIdle
    /\ tableIdle
    /\ classifyIdle

\* _extract_note20_breakdown up to the end of the merge loop
MergeLines ==
    /\ pc = "merge_lines"
    /\ note_lines' = MergeWrapped(FindNoteBlock(note_text, "note20", "end20"))
    /\ pc' = "note20"
    /\ UNCHANGED <<note_text, resolveVars, lineVars, parseVars, noteVars, portfolioVars,
                   numberVars, tableVars, classifyVars>>

\* the rest of _extract_note20_breakdown
ExtractNote20 ==
    /\ pc = "note20"
    /\ note20' = ExtractNote20Breakdown(note_text)
    /\ pc' = "note8"
    /\ UNCHANGED <<note8, warnings, blockVars, resolveVars, lineVars, parseVars,
                   portfolioVars, numberVars, tableVars, classifyVars>>

\* _extract_note8_fvtoci_split
ExtractNote8 ==
    /\ pc = "note8"
    /\ note8' = ExtractNote8FvtociSplit(note_text)
    /\ pc' = "notes_done"
    /\ UNCHANGED <<note20, warnings, blockVars, resolveVars, lineVars, parseVars,
                   portfolioVars, numberVars, tableVars, classifyVars>>

NextBlock == MergeLines \/ ExtractNote20 \/ ExtractNote8

SpecBlock == InitBlock /\ [][NextBlock]_vars

\* The numbers of a line that are neither of magnitude below 100 nor a year
\* value 2000..2099, in the order of the line.
Surviving(ln) ==
    SelectSeq(ParsedValues(ln.toks),
              LAMBDA n : Abs(n) >= 100 /\ ~(2000 <= n /\ n <= 2099))

\* The lines each extractor reads: the reconstructed lines of the
\* investment-income note, the lines of the FVTOCI note.
Note20Lines == note_lines
Note8Lines == FindNoteBlock(note_text, "note8", "end8")

\* The sub-metrics of both notes: result key, keyword, value found, lines read.
SubMetrics ==
    { [key |-> NOTE20_KEYS[1], word |-> "from deposits",
       found |-> note20[NOTE20_KEYS[1]], lines |-> Note20Lines],
      [key |-> NOTE20_KEYS[2], word |-> "amortised cost",
       found |-> note20[NOTE20_KEYS[2]], lines |-> Note20Lines],
      [key |-> NOTE20_KEYS[3], word |-> "fvtoci",
       found |-> note20[NOTE20_KEYS[3]], lines |-> Note20Lines],
      [key |-> NOTE8_KEYS[1], word |-> "equity securities",
       found |-> note8[NOTE8_KEYS[1]], lines |-> Note8Lines],
      [key |-> NOTE8_KEYS[2], word |-> "managed fund",
       found |-> note8[NOTE8_KEYS[2]], lines |-> Note8Lines],
      [key |-> NOTE8_KEYS[3], word |-> "investment in sukuk",
       found |-> note8[NOTE8_KEYS[3]], lines |-> Note8Lines] }

\* The lines that hold the keyword and carry an eligible number.
MatchingLines(lns, word) ==
    {i \in 1..Len(lns) : word \in lns[i].words /\ Surviving(lns[i]) # << >>}

\* The first eligible number of the first matching line, None without one.
FirstMatch(lns, word) ==
    IF MatchingLines(lns, word) = {} THEN None
    ELSE LET i == CHOOSE j \in MatchingLines(lns, word) :
                      \A k \in MatchingLines(lns, word) : j <= k
         IN Some(Surviving(lns[i])[1])

\* C25: each sub-metric of either note holds the eligible value of the first
\* line, in document order, that contains one of its keywords and carries an
\* eligible number, and nothing when there is no such line.
C25_FirstMatchWins ==
    pc = "notes_done" => \A m \in SubMetrics : m.found = FirstMatch(m.lines, m.word)

\* C26: a value assigned to a note sub-metric has magnitude of at least 100
\* and is no year value 2000..2099; it is the first number surviving both
\* exclusions on a line that holds the sub-metric's keyword; and when no line
\* with the keyword has a surviving number the sub-metric is not set.
C26_EligibleValue ==
    pc = "notes_done" =>
        \A m \in SubMetrics :
            /\ m.found # None =>
                   /\ Abs(m.found[1]) >= 100
                   /\ m.found[1] \notin 2000..2099
                   /\ \E i \in MatchingLines(m.lines, m.word) :
                          m.found[1] = Surviving(m.lines[i])[1]
            /\ MatchingLines(m.lines, m.word) = {} => m.found = None

\* "FVTOCI at 31 December 2025 14,133": the day and the year are passed over.
C26_Witness ==
    /\ pc = "notes_done"
    /\ \E i \in 1..Len(note_lines) :
           /\ "fvtoci" \in note_lines[i].words
           /\ ParsedValues(note_lines[i].toks) = <<31, 2025, 14133>>
    /\ note20.investment_income_fvtoci = Some(14133)

\* "Income from deposits rose in 2025 by 50" alone sets nothing.
C26_WitnessNothingSet ==
    /\ pc = "notes_done"
    /\ \E i \in 1..Len(note_lines) :
           /\ "from deposits" \in note_lines[i].words
           /\ ParsedValues(note_lines[i].toks) = <<2025, 50>>
    /\ note20.investment_income_deposits = None

\* A header line of years: nothing but year tokens, however many.
YearsOnly(ln) ==
    /\ ~ln.text
    /\ ln.toks # << >>
    /\ \A i \in 1..Len(ln.toks) :
           ln.toks[i].form = "plain" /\ ln.toks[i].mag \in 2000..2099

\* The values of a line that reach the floor.
AtFloor(ln, floor) == SelectSeq(ParsedValues(ln.toks), LAMBDA n : Abs(n) >= floor)

\* The lines the stated total may come from: nothing but numbers, one of them
\* at or above the floor, no header of years and no unit declaration.
TotalLines(lns, floor) ==
    {i \in 1..Len(lns) : /\ ~lns[i].text
                         /\ AtFloor(lns[i], floor) # << >>
                         /\ ~YearsOnly(lns[i])
                         /\ "aed" \notin lns[i].words}

StatedTotal(lns, floor) ==
    IF TotalLines(lns, floor) = {} THEN None
    ELSE LET i == CHOOSE j \in TotalLines(lns, floor) :
                      \A k \in TotalLines(lns, floor) : j <= k
         IN Some(AtFloor(lns[i], floor)[1])

\* C27: the stated total of a note is the first value at or above the floor
\* (100 for the investment-income note, 1,000,000 for the FVTOCI note) on the
\* first line that holds only numbers and is neither a header of years, of
\* whatever number of years, nor a unit declaration; it is absent when there
\* is no such line, whatever the sub-metrics are.
C27_StatedTotal ==
    pc = "notes_done" =>
        /\ note20.investment_income_total = StatedTotal(Note20Lines, 100)
        /\ note8.fvtoci_total = StatedTotal(Note8Lines, 1000000)

\* The lines of the investment-income note as they stand in the text.
Note20Block == FindNoteBlock(note_text, "note20", "end20")

\* A sub-heading line "N. ..." or a unit declaration beginning with "AED".
NeverJoinedForward(ln) == ln.start \in {"N.", "AED"}

\* The reconstruction from line i on: joined holds the lines reconstructed
\* so far and prev the last non-blank line read.  A line is joined behind the
\* last reconstructed line when that line has no numeric content yet and the
\* line read before is neither a sub-heading nor a unit declaration.
RECURSIVE ReconstructFrom(_, _, _, _)
ReconstructFrom(joined, prev, lns, i) ==
    IF i > Len(lns) THEN joined
    ELSE IF IsBlank(lns[i]) THEN ReconstructFrom(joined, prev, lns, i + 1)
    ELSE IF /\ joined # << >>
            /\ ~HasNumber(joined[Len(joined)])
            /\ ~NeverJoinedForward(prev)
         THEN ReconstructFrom([joined EXCEPT ![Len(joined)] = JoinLines(@, lns[i])],
                              lns[i], lns, i + 1)
         ELSE ReconstructFrom(Append(joined, lns[i]), lns[i], lns, i + 1)

Reconstructed(lns) == ReconstructFrom(<< >>, BlankLine, lns, 1)

\* C28: in the investment-income note every non-blank line without numeric
\* content is joined in front of the following non-blank line, again and
\* again until the joined line has numeric content, and a sub-heading line
\* "N. ..." or a unit line beginning with "AED" is never joined with the line
\* that follows it.
C28_LineReconstruction ==
    pc \in {"note20", "note8", "notes_done"} => note_lines = Reconstructed(Note20Block)

-----------------------------------------------------------------------------
(* The reporting period in the returned metrics (SpecNotes).                 *)

\* The text of the document mentions the period phrase.
Mentions(phrase) == \E i \in 1..Len(pages) : phrase \in pages[i].wording

\* C29: the returned metrics always hold period_months, and it is 9 when the
\* text mentions a nine-month period, else 6 for a six-month period, else 3
\* for a three-month period, else 12; so it is 12 for a document without
\* pages or without period wording.
C29_PeriodMonths ==
    Returned =>
        /\ "period_months" \in DOMAIN metrics
        /\ metrics["period_months"] \in {3, 6, 9, 12}
        /\ metrics["period_months"] =
               IF Mentions("nine-month") THEN 9
               ELSE IF Mentions("six-month") THEN 6
               ELSE IF Mentions("three-month") THEN 3
               ELSE 12
        /\ pages = << >> => metrics["period_months"] = 12

\* An interim report that names the nine-month and the three-month period.
C29_Witness ==
    /\ Returned
    /\ Mentions("nine-month") /\ Mentions("three-month")
    /\ metrics["period_months"] = 9

\* A half-year report, and a document without pages.
C29_WitnessSixMonth ==
    Returned /\ Mentions("six-month") /\ ~Mentions("nine-month") /\ metrics["period_months"] = 6

C29_WitnessNoPages ==
    Returned /\ pages = << >> /\ metrics["period_months"] = 12

-----------------------------------------------------------------------------
(* Scores of the candidates and the method of the resolved one (SpecParse).  *)

\* Pass 3 has run: best holds the resolved candidate of every metric.
BestComputed == pc \notin {"read_pages", "extract"}

\* The candidates of the metric that a table gave.
TableCandidates(metric) ==
    {i \in 1..Len(candidates) :
         candidates[i].metric = metric /\ candidates[i].method = "table"}

\* The candidates of the metric that a text line gave.
LineCandidates(metric) ==
    {i \in 1..Len(candidates) :
         candidates[i].metric = metric /\ candidates[i].method = "regex"}

\* C30: every candidate of the line extractor has score 3 and every candidate
\* of the table extractor has score 4; hence once the candidates are
\* resolved, a metric with at least one table candidate on any page is
\* resolved to a candidate of method "table", whatever the values are.
C30_TableAlwaysWins ==
    /\ \A i \in 1..Len(candidates) :
           /\ candidates[i].method = "regex" => candidates[i].score = 3
           /\ candidates[i].method = "table" => candidates[i].score = 4
    /\ BestComputed =>
           \A i \in 1..Len(candidates) :
               TableCandidates(candidates[i].metric) # {} =>
                   /\ KeyIndex(best, candidates[i].metric) # 0
                   /\ best[KeyIndex(best, candidates[i].metric)].method = "table"

\* A balance metric read from a line and, with a smaller magnitude, from a
\* table is resolved to the table's reading.
C30_Witness ==
    /\ BestComputed
    /\ \E m \in BALANCE_LABELS :
           /\ \E i \in LineCandidates(m) : \E j \in TableCandidates(m) :
                  /\ i < j
                  /\ Abs(candidates[i].value) > Abs(candidates[j].value)
           /\ best[KeyIndex(best, m)].method = "table"


=============================================================================
